---- MODULE Spec2Model ----
(***************************************************************************)
(* Transfer Booth, backend/transfer.                                       *)
(*                                                                         *)
(* Spec: one transfer session of service.py (send_file, receive_file,      *)
(* _monitor_remote_commands, _monitor_local_state) between one sender and  *)
(* one receiver joined by one TCP connection, driven by the calls of       *)
(* manager.py on either side (pause, resume, cancel, respond_to_request,   *)
(* the 60 s timeout of the acceptance prompt).  Every asyncio task is a    *)
(* program counter; one action is the code a task runs between two         *)
(* suspension points (await on the socket, on a worker thread, on a sleep, *)
(* or on a state callback).  A manager call is one action.  The TCP        *)
(* connection is two FIFO queues of framed messages plus a closed flag per *)
(* end.  The key exchange is not modelled; an encrypted chunk is its       *)
(* plaintext with a tag that authenticates it or not.                      *)
(*                                                                         *)
(* FaultSpec: the same session on a network that may alter a DATA_CHUNK in *)
(* transit and may break the connection.                                   *)
(*                                                                         *)
(* MgrSpec: one TransferManager of manager.py with several sessions at     *)
(* once (queued sends and incoming connections), its tables _transfers,    *)
(* _accept_futures and _tasks, and stop().                                 *)
(*                                                                         *)
(* TrustSpec: two devices over several runs of the application: the        *)
(* identity of discovery/identity.py, the trust store of                   *)
(* discovery/trust.py, the beacons and the peer table of                   *)
(* discovery/service.py, and the identity steps of send_file and           *)
(* receive_file, one transfer at a time.                                   *)
(*                                                                         *)
(* DiscoverySpec: datagram_received of discovery/service.py alone, over    *)
(* every kind of beacon and every trust store.                             *)
(*                                                                         *)
(* LanSpec, LanLive: the startup of main.py and the peer table of          *)
(* discovery/service.py in time: the broadcast loop, the cleanup loop and  *)
(* one other device that comes and goes.                                   *)
(*                                                                         *)
(* EventSpec: one outgoing transfer seen through _on_state_change and      *)
(* _emit of manager.py: the send task, its control-reader, the manager     *)
(* calls and stop(), each suspended in the registered callbacks.           *)
(*                                                                         *)
(* FrameSpec: recv_message of service.py reading one frame.                *)
(***************************************************************************)
EXTENDS Integers, Sequences, FiniteSets, TLC

\* ---------------------------------------------------------------- bounds
\* CHUNK_SIZE is config.CHUNK_SIZE (131072) scaled down to 2 bytes.
CHUNK_SIZE == 2
\* Largest size of the sender's file, in bytes.
MaxFileSize == 3
\* How many pause_transfer calls take effect, both sides together.
MaxPauses == 2
\* How many sessions (queued sends and incoming connections) one manager sees.
MaxSessions == 2
\* How many different transfer_id values occur.
MaxTids == 1

\* ------------------------------------------------------ TransferState
PENDING == "PENDING"
AWAITING_ACCEPTANCE == "AWAITING_ACCEPTANCE"
REJECTED == "REJECTED"
CONNECTING == "CONNECTING"
TRANSFERRING == "TRANSFERRING"
PAUSED == "PAUSED"
PAUSED_BY_PEER == "PAUSED_BY_PEER"
COMPLETED == "COMPLETED"
FAILED == "FAILED"
CANCELLED == "CANCELLED"

\* The receiver has no TransferInfo before METADATA is read.
NoTransfer == "NONE"

\* spec.md section 3: the terminal states.
Terminal == {COMPLETED, FAILED, CANCELLED, REJECTED}

\* ------------------------------------------------------- MessageType
HANDSHAKE_PUBKEY == "HANDSHAKE_PUBKEY"
METADATA == "METADATA"
ACCEPT == "ACCEPT"
REJECT == "REJECT"
RESUME_OFFSET == "RESUME_OFFSET"
DATA_CHUNK == "DATA_CHUNK"
PAUSE == "PAUSE"
RESUME == "RESUME"
CANCEL == "CANCEL"
TRANSFER_COMPLETE == "TRANSFER_COMPLETE"

\* A framed message: type, payload (a sequence of bytes; the offset for
\* RESUME_OFFSET is carried as a one-element payload).
Msg(t, p) == [type |-> t, data |-> p]

VARIABLES
  fileSize,      \* size of the sender's file (TransferInfo.file_size on both sides)
  sState,        \* sender's TransferInfo.state
  sTransferred,  \* sender's TransferInfo.transferred_bytes (also the read position)
  sPc,           \* where the send_file task is suspended
  sMon,          \* the _monitor_remote_commands task: off, start, on, done
  sTaskReg,      \* the send task is in TransferManager._tasks
  sCancelReq,    \* Task.cancel() was called on the send task and is not yet delivered
  sConn,         \* send_file's writer is set (open_connection returned)
  rState,        \* receiver's TransferInfo.state (NoTransfer before METADATA)
  rTransferred,  \* receiver's TransferInfo.transferred_bytes
  rPc,           \* where the receive_file task is suspended
  rMon,          \* the _monitor_local_state task: off, start, on, done
  rLast,         \* last_state of _monitor_local_state
  slot,          \* the acceptance future in _accept_futures: absent, pending, true, false, timeout
  accepted,      \* what accept_callback returned: unset, true, false
  chanSR,        \* frames written by the sender, not yet read by the receiver
  chanRS,        \* frames written by the receiver, not yet read by the sender
  sClosed,       \* the sender closed its end of the connection
  rClosed,       \* the receiver closed its end of the connection
  rFile,         \* content of save_dir/file_name
  rFileExists,   \* save_dir/file_name exists
  pauses,        \* number of effective pause_transfer calls so far
  hist,          \* history: what was written, read and opened (not read by the code)
  mSess,         \* one TransferManager: its sessions (send tasks and incoming connections)
  mTransfers,    \* TransferManager._transfers: transfer_id -> session whose TransferInfo it holds
  mFutures,      \* TransferManager._accept_futures: transfer_id -> session whose future it holds
  mTasks,        \* TransferManager._tasks: transfer_id -> session whose task it holds
  run,           \* per device: which run of the application this is
  tPeers,        \* per device: TrustStore._peers, in insertion order
  tFile,         \* per device: the records in trusted_peers.json (none: no file)
  peers,         \* per device: DiscoveryService._peers, the peer table
  xfer,          \* the transfer in progress between the two devices, if any
  nXfers,        \* how many transfers were started
  lPc,           \* where lifespan of main.py is
  dPort,         \* DiscoveryService._transfer_port
  mPort,         \* TransferManager.receiver_port (0: no listener bound)
  bTimer,        \* time until _broadcast_loop wakes (-1: no such task)
  cTimer,        \* time until _cleanup_loop wakes (-1: no such task)
  seen,          \* DiscoveryService._peers: device_id -> now - last_seen
  rAlive,        \* the other device is broadcasting
  rHeard,        \* a beacon of the other device's present broadcasting was received
  rRun,          \* the run of the application on the other device
  rTimer,        \* time until the other device's next beacon
  emitted,       \* the peer events the last step emitted
  lastEv,        \* device_id -> the last peer event emitted for it
  sentPorts,     \* the transfer_port values of the beacons sent so far
  eState,        \* TransferInfo.state of the transfer whose events are followed
  eBytes,        \* its transferred_bytes, in chunks
  ePc,           \* where the send task, its control-reader and the manager call are
  eFrame,        \* the _emit each of them is suspended in
  eCancelReq,    \* the tasks Task.cancel() was called on and not yet delivered to
  eTaskReg,      \* the send task is in _tasks
  eStopped,      \* stop() was called
  eLog,          \* the events emitted so far that carry a terminal state: <<type, state>>
  eEntered,      \* the terminal states the transfer has entered
  eRaised,       \* some callback has raised
  eLast,         \* the pause_transfer or resume_transfer call in progress and the state it found
  wType,         \* the type byte of the frame header on the stream
  wLen,          \* the length the frame header declares
  wAvail,        \* the payload bytes the peer sends before it closes
  wPc,           \* where recv_message is: header, payload, returned, raised
  wBuf           \* the payload bytes recv_message has buffered

sessionVars ==
  <<fileSize, sState, sTransferred, sPc, sMon, sTaskReg, sCancelReq,
    sConn, rState, rTransferred, rPc, rMon, rLast, slot, accepted, chanSR,
    chanRS, sClosed, rClosed, rFile, rFileExists, pauses, hist>>

mgrVars == <<mSess, mTransfers, mFutures, mTasks>>

trustVars == <<run, tPeers, tFile, peers, xfer, nXfers>>

lanVars ==
  <<lPc, dPort, mPort, bTimer, cTimer, seen, rAlive, rHeard, rRun, rTimer,
    emitted, lastEv, sentPorts>>

emitVars ==
  <<eState, eBytes, ePc, eFrame, eCancelReq, eTaskReg, eStopped, eLog, eEntered,
    eRaised, eLast>>

frameVars == <<wType, wLen, wAvail, wPc, wBuf>>

vars == <<sessionVars, mgrVars, trustVars, lanVars, emitVars, frameVars>>

senderVars == <<sState, sTransferred, sPc, sMon, sTaskReg, sCancelReq, sConn>>
receiverVars == <<rState, rTransferred, rPc, rMon, rLast, slot, accepted>>
fileVars == <<rFile, rFileExists>>

\* The sender's file: byte i has value i.
SrcFile == [i \in 1..fileSize |-> i]

Min(a, b) == IF a < b THEN a ELSE b

\* p is an initial segment of f.
IsPrefix(p, f) == Len(p) <= Len(f) /\ \A i \in 1..Len(p) : p[i] = f[i]

\* ----------------------------------------------------------- history
HistInit ==
  [sData |-> FALSE,       \* the sender wrote DATA_CHUNK or TRANSFER_COMPLETE
   sRead |-> <<>>,        \* the frame types send_file itself has read, in order
   rWrote |-> {},         \* ACCEPT / REJECT / CANCEL written by the receiver
   rOpened |-> FALSE,     \* receive_file opened save_dir/file_name
   first |-> "none",      \* what resolved the acceptance prompt: accept, reject, timeout
   sWantsPause |-> FALSE, \* the sender's user paused and has not called resume since
   rWantsPause |-> FALSE, \* the receiver's user paused and has not called resume since
   rUserCancel |-> FALSE, \* the receiver's user cancelled during the data phase
   rFileChanged |-> FALSE, \* save_dir/file_name was created, truncated or written to
   fault |-> "none",      \* what the network did to the session: corrupt, drop
   stopped |-> FALSE,     \* TransferManager.stop() has returned
   prefix0 |-> TRUE,      \* save_dir/file_name was absent or a prefix of the sender's file
   sOffset |-> 0 - 1,     \* the resume offset send_file has read (-1: none yet)
   sChunks |-> <<>>,      \* the plaintexts of the DATA_CHUNKs the sender wrote, in order
   sComplete |-> 0,       \* how many TRANSFER_COMPLETE the sender wrote
   rReadAltered |-> FALSE, \* receive_file has read a DATA_CHUNK that was altered in transit
   sPauseOpen |-> FALSE,  \* the sender wrote PAUSE and has written no RESUME since
   rUnheard |-> FALSE]    \* respond_to_request ran between the event and the future

\* ---------------------------------------------------------- the wire
\* send_message on a connection whose peer has closed: the frame is lost, and
\* drain() either returns or raises (the reset may or may not have been seen).
WriteOutcomes(peerClosed) == IF peerClosed THEN {TRUE, FALSE} ELSE {TRUE}

\* A faulty send_message whose frames overtake those already in flight.
WrittenAhead(chan, ms, peerClosed) == IF peerClosed THEN chan ELSE ms \o chan

\* The queue after a successful send_message of the frames ms.
Written(chan, ms, peerClosed) == IF peerClosed THEN chan ELSE chan \o ms

\* recv_message returns a frame / raises IncompleteReadError.
CanRead(chan) == chan /= <<>>
AtEof(chan, peerClosed) == chan = <<>> /\ peerClosed

\* ------------------------------------------------------- AES-GCM
\* encrypt_chunk: nonce, ciphertext and tag; the tag authenticates the body.
encrypt_chunk(chunk) == [body |-> chunk, tag |-> TRUE]

\* A frame whose bytes were altered in transit: the tag no longer matches.
Altered(c) == [body |-> c.body, tag |-> FALSE]

\* decrypt_chunk returns the plaintext iff the tag authenticates; else it raises.
AuthenticUnchecked(c) == TRUE

Authentic(c) == c.tag
decrypt_chunk(c) == c.body

\* ----------------------------------------------------- Init
\* What save_dir/file_name may hold before the transfer of a file of n bytes:
\* nothing, a prefix of the sender's file (the empty file included), or
\* unrelated bytes (value 0): one byte, or one byte more than the sender's file.
ExistingFiles(n) ==
  {[exists |-> FALSE, content |-> <<>>]}
    \cup {[exists |-> TRUE, content |-> [i \in 1..k |-> i]] : k \in 0..n}
    \cup {[exists |-> TRUE, content |-> [i \in 1..k |-> 0]] : k \in {1, n + 1}}

SessionInit ==
  /\ fileSize \in 0..MaxFileSize
  /\ \E e \in ExistingFiles(fileSize) :
       /\ rFile = e.content
       /\ rFileExists = e.exists
       /\ hist = [HistInit EXCEPT !.prefix0 = IsPrefix(e.content, SrcFile)]
  /\ sState = PENDING
  /\ sTransferred = 0
  /\ sPc = "init"
  /\ sMon = "off"
  /\ sTaskReg = TRUE
  /\ sCancelReq = FALSE
  /\ sConn = FALSE
  /\ rState = NoTransfer
  /\ rTransferred = 0
  /\ rPc = "idle"
  /\ rMon = "off"
  /\ rLast = NoTransfer
  /\ slot = "absent"
  /\ accepted = "unset"
  /\ chanSR = <<>>
  /\ chanRS = <<>>
  /\ sClosed = FALSE
  /\ rClosed = FALSE
  /\ pauses = 0

\* TransferManager.__init__ (manager.py lines 33-43): empty tables.
Sessions == 1..MaxSessions
Tids == 1..MaxTids

NoSession ==
  [dir |-> "none", tid |-> 0, state |-> NoTransfer, pc |-> "idle",
   fut |-> "none", cancelReq |-> FALSE]

ManagerInit ==
  /\ mSess = [s \in Sessions |-> NoSession]
  /\ mTransfers = [t \in Tids |-> 0]
  /\ mFutures = [t \in Tids |-> 0]
  /\ mTasks = [t \in Tids |-> 0]

\* ------------------------------------------ identities of the devices
Devices == {"A", "B"}

Other(d) == CHOOSE o \in Devices : o /= d

\* The empty string.
Empty == <<"", "", 0>>

\* config.py: the application id, the static device id, the host name.
APP_ID == <<"app", "transfer-booth-v1", 0>>
DEVICE_ID(d) == <<"device", d, 0>>
DEVICE_NAME(d) == <<"host", d, 0>>

\* IdentityService: a uuid4 and a random alias per run, a long-term key pair.
PublicIdOfRun(d, n) == <<"uuid", d, n>>
AliasOfRun(d, n) == <<"alias", d, n>>
PublicId(d) == PublicIdOfRun(d, run[d])
Alias(d) == AliasOfRun(d, run[d])
PublicKey(d) == <<"key", d, 0>>

\* IdentityService.sign: a value that verifies under the signer's public key
\* for the signed bytes and for nothing else.
Sign(d, msg) == [kind |-> "sig", key |-> PublicKey(d), msg |-> msg]

\* Ed25519PublicKey.verify does not raise.
IsSignatureOf(sig, pk, msg) == sig.key = pk /\ sig.msg = msg

\* No TrustedPeer / no peer_identity (None).
NoPeer == [device_id |-> Empty, real_name |-> Empty, public_key_hex |-> Empty]

\* No transfer between the two devices.
NoXfer == [phase |-> "idle"]

\* TrustStore.__init__ and DiscoveryService.__init__ on a device that never
\* ran: no trusted_peers.json, an empty peer table.
TrustInit ==
  /\ run = [d \in Devices |-> 1]
  /\ tPeers = [d \in Devices |-> <<>>]
  /\ tFile = [d \in Devices |-> <<>>]
  /\ peers = [d \in Devices |-> {}]
  /\ xfer = NoXfer
  /\ nXfers = 0

\* config.py: the time between two beacons (3 s) and the time before a peer
\* is considered offline (10 s), counted in beacon intervals; the range
\* receiver ports are drawn from.
DISCOVERY_INTERVAL == 1

PEER_TIMEOUT == 3

TRANSFER_PORT_MAX == 65000

\* main.py lines 28-47 have run: the services are constructed and the event
\* callbacks registered, nothing is started; the other device is silent.
LanInit ==
  /\ lPc = "wired"
  /\ dPort = 0
  /\ mPort = 0
  /\ bTimer = 0 - 1
  /\ cTimer = 0 - 1
  /\ seen = <<>>
  /\ rAlive = FALSE
  /\ rHeard = FALSE
  /\ rRun = 1
  /\ rTimer = 0 - 1
  /\ emitted = {}
  /\ lastEv = <<>>
  /\ sentPorts = {}

\* The callers of _on_state_change that are followed: the send task, its
\* control-reader and a manager call.
Callers == {"task", "reader", "api"}

\* No _emit in progress.
NoEmit == [ev |-> "none", st |-> NoTransfer, invoked |-> <<>>]

\* _emit line 60: the callbacks in registration order, the first invoked.
Emit(ev, st) == [ev |-> ev, st |-> st, invoked |-> <<1>>]

Emitting(c) == eFrame[c].ev /= "none"

\* queue_send lines 115-139 has run: the transfer is PENDING in _transfers,
\* its task is in _tasks and has not run yet.
EmitInit ==
  /\ eState = PENDING
  /\ eBytes = 0
  /\ ePc = [c \in Callers |-> CASE c = "task" -> "init"
                                [] c = "reader" -> "off"
                                [] OTHER -> "idle"]
  /\ eFrame = [c \in Callers |-> NoEmit]
  /\ eCancelReq = {}
  /\ eTaskReg = TRUE
  /\ eStopped = FALSE
  /\ eLog = {}
  /\ eEntered = {}
  /\ eRaised = FALSE
  /\ eLast = <<"none", 0, NoTransfer>>

\* No frame is being read.
FrameRest ==
  /\ wType = "none" /\ wLen = 0 /\ wAvail = 0
  /\ wPc = "header" /\ wBuf = 0

Init == SessionInit /\ ManagerInit /\ TrustInit /\ LanInit /\ EmitInit /\ FrameRest

\* ------------------------------------------------- send_file (sender)
\* except Exception: FAILED unless already CANCELLED; then the finally block.
SendRaise ==
  /\ sState' = IF sState = CANCELLED THEN CANCELLED ELSE FAILED
  /\ sPc' = "fin_exc"

\* send_file lines 231-232: state = CONNECTING, state callback.
send_file_start ==
  /\ sPc = "init" /\ ~sCancelReq
  /\ sState' = CONNECTING
  /\ sPc' = "connect"
  /\ UNCHANGED <<mgrVars, trustVars, lanVars, emitVars, frameVars,
                 fileSize, sTransferred, sMon, sTaskReg, sCancelReq, sConn,
                 receiverVars, chanSR, chanRS, sClosed, rClosed, fileVars, pauses, hist>>

\* send_file lines 234-237: open_connection, then the first half of
\* perform_handshake_sender (send HANDSHAKE_PUBKEY).  The connect may fail.
send_file_connect ==
  /\ sPc = "connect" /\ ~sCancelReq
  /\ \E up \in BOOLEAN :
       IF up
         THEN /\ chanSR' = Written(chanSR, <<Msg(HANDSHAKE_PUBKEY, <<>>)>>, rClosed)
              /\ UNCHANGED hist
              /\ sPc' = "hs_wait"
              /\ rPc' = "hs_wait"
              /\ sConn' = TRUE
              /\ UNCHANGED sState
         ELSE /\ SendRaise
              /\ UNCHANGED <<chanSR, hist, rPc, sConn>>
  /\ UNCHANGED <<mgrVars, trustVars, lanVars, emitVars, frameVars,
                 fileSize, sTransferred, sMon, sTaskReg, sCancelReq,
                 rState, rTransferred, rMon, rLast, slot, accepted,
                 chanRS, sClosed, rClosed, fileVars, pauses>>

\* perform_handshake_sender lines 76-80, send_file lines 240-256:
\* read the peer's key, send METADATA.
send_file_handshake ==
  /\ sPc = "hs_wait" /\ ~sCancelReq
  /\ \/ /\ CanRead(chanRS)
        /\ chanRS' = Tail(chanRS)
        /\ IF Head(chanRS).type = HANDSHAKE_PUBKEY
             THEN \E ok \in WriteOutcomes(rClosed) :
                    IF ok
                      THEN /\ chanSR' = Written(chanSR, <<Msg(METADATA, <<fileSize>>)>>, rClosed)
                           /\ hist' = [hist EXCEPT !.sRead = Append(@, HANDSHAKE_PUBKEY)]
                           /\ sPc' = "acc_wait"
                           /\ UNCHANGED sState
                      ELSE /\ SendRaise
                           /\ UNCHANGED <<chanSR, hist>>
             ELSE /\ SendRaise
                  /\ UNCHANGED <<chanSR, hist>>
     \/ /\ AtEof(chanRS, rClosed)
        /\ SendRaise
        /\ UNCHANGED <<chanSR, chanRS, hist>>
  /\ UNCHANGED <<mgrVars, trustVars, lanVars, emitVars, frameVars,
                 fileSize, sTransferred, sMon, sTaskReg, sCancelReq, sConn,
                 receiverVars, sClosed, rClosed, fileVars, pauses>>

\* A faulty send_file without the REJECT branch: only ACCEPT is expected.
ReplyOutcomeNoRejectBranch(t) ==
  CASE t = ACCEPT -> "accepted"
    [] OTHER -> "error"

\* send_file lines 260-265: what the frame read after METADATA means.
ReplyOutcome(t) ==
  CASE t = REJECT -> "rejected"
    [] t = ACCEPT -> "accepted"
    [] OTHER -> "error"

\* send_file lines 258-265: wait for ACCEPT / REJECT.
send_file_accept ==
  /\ sPc = "acc_wait" /\ ~sCancelReq
  /\ \/ /\ CanRead(chanRS)
        /\ chanRS' = Tail(chanRS)
        /\ hist' = [hist EXCEPT !.sRead = Append(@, Head(chanRS).type)]
        /\ CASE ReplyOutcome(Head(chanRS).type) = "rejected" ->
                  /\ sState' = REJECTED
                  /\ sPc' = "fin_try"
             [] ReplyOutcome(Head(chanRS).type) = "accepted" ->
                  /\ sPc' = "off_wait"
                  /\ UNCHANGED sState
             [] OTHER -> SendRaise
     \/ /\ AtEof(chanRS, rClosed)
        /\ SendRaise
        /\ UNCHANGED <<chanRS, hist>>
  /\ UNCHANGED <<mgrVars, trustVars, lanVars, emitVars, frameVars,
                 fileSize, sTransferred, sMon, sTaskReg, sCancelReq, sConn,
                 receiverVars, chanSR, sClosed, rClosed, fileVars, pauses>>

\* send_file lines 284-293: read RESUME_OFFSET, state = TRANSFERRING,
\* transferred_bytes = offset, state callback.
send_file_offset ==
  /\ sPc = "off_wait" /\ ~sCancelReq
  /\ \/ /\ CanRead(chanRS)
        /\ chanRS' = Tail(chanRS)
        /\ hist' = [hist EXCEPT !.sRead = Append(@, Head(chanRS).type),
                                !.sOffset = IF Head(chanRS).type = RESUME_OFFSET
                                              THEN Head(chanRS).data[1] ELSE @]
        /\ IF Head(chanRS).type = RESUME_OFFSET
             THEN /\ sState' = TRANSFERRING
                  /\ sTransferred' = Head(chanRS).data[1]
                  /\ sPc' = "spawn"
             ELSE /\ SendRaise
                  /\ UNCHANGED sTransferred
     \/ /\ AtEof(chanRS, rClosed)
        /\ SendRaise
        /\ UNCHANGED <<chanRS, hist, sTransferred>>
  /\ UNCHANGED <<mgrVars, trustVars, lanVars, emitVars, frameVars,
                 fileSize, sMon, sTaskReg, sCancelReq, sConn,
                 receiverVars, chanSR, sClosed, rClosed, fileVars, pauses>>

\* send_file lines 305-322: the top of the send loop.  CANCELLED: write CANCEL
\* and return.  PAUSED / PAUSED_BY_PEER: write PAUSE if PAUSED, then wait.
\* Otherwise start reading the next chunk.
SendLoopTop ==
  CASE sState = CANCELLED ->
         \E ok \in WriteOutcomes(rClosed) :
           IF ok
             THEN /\ chanSR' = Written(chanSR, <<Msg(CANCEL, <<>>)>>, rClosed)
                  /\ sPc' = "fin_exc"
                  /\ UNCHANGED <<sState, hist>>
             ELSE /\ SendRaise
                  /\ UNCHANGED <<chanSR, hist>>
    [] sState = PAUSED ->
         \E ok \in WriteOutcomes(rClosed) :
           IF ok
             THEN /\ chanSR' = Written(chanSR, <<Msg(PAUSE, <<>>)>>, rClosed)
                  /\ hist' = [hist EXCEPT !.sPauseOpen = TRUE]
                  /\ sPc' = "pausewait"
                  /\ UNCHANGED sState
             ELSE /\ SendRaise
                  /\ UNCHANGED <<chanSR, hist>>
    [] sState = PAUSED_BY_PEER ->
         /\ sPc' = "pausewait"
         /\ UNCHANGED <<sState, chanSR, hist>>
    [] OTHER ->
         /\ sPc' = "chunk"
         /\ UNCHANGED <<sState, chanSR, hist>>

\* send_file lines 295-304: after the state callback, create the control-reader
\* task, open the file, seek, and enter the loop.
send_file_spawn ==
  /\ sPc = "spawn" /\ ~sCancelReq
  /\ sMon' = "start"
  /\ SendLoopTop
  /\ UNCHANGED <<mgrVars, trustVars, lanVars, emitVars, frameVars,
                 fileSize, sTransferred, sTaskReg, sCancelReq, sConn,
                 receiverVars, chanRS, sClosed, rClosed, fileVars, pauses>>

\* The control-reader, once created, runs before the send task runs again.
send_file_loop ==
  /\ sPc = "loop" /\ ~sCancelReq /\ sMon /= "start"
  /\ SendLoopTop
  /\ UNCHANGED <<mgrVars, trustVars, lanVars, emitVars, frameVars,
                 fileSize, sTransferred, sMon, sTaskReg, sCancelReq, sConn,
                 receiverVars, chanRS, sClosed, rClosed, fileVars, pauses>>

\* send_file lines 314-322: the pause wait is left once the state is neither
\* PAUSED nor PAUSED_BY_PEER; CANCELLED: write CANCEL and return;
\* TRANSFERRING: write RESUME and go on to read the next chunk.
send_file_pausewait ==
  /\ sPc = "pausewait" /\ ~sCancelReq /\ sMon /= "start"
  /\ sState \notin {PAUSED, PAUSED_BY_PEER}
  /\ \E ok \in WriteOutcomes(rClosed) :
       CASE ~ok /\ sState \in {CANCELLED, TRANSFERRING} ->
              /\ SendRaise
              /\ UNCHANGED <<chanSR, hist>>
         [] ok /\ sState = CANCELLED ->
              /\ chanSR' = Written(chanSR, <<Msg(CANCEL, <<>>)>>, rClosed)
              /\ UNCHANGED hist
              /\ sPc' = "fin_exc"
              /\ UNCHANGED sState
         [] ok /\ sState = TRANSFERRING ->
              /\ chanSR' = Written(chanSR, <<Msg(RESUME, <<>>)>>, rClosed)
              /\ hist' = [hist EXCEPT !.sPauseOpen = FALSE]
              /\ sPc' = "chunk"
              /\ UNCHANGED sState
         [] OTHER ->
              /\ sPc' = "chunk"
              /\ UNCHANGED <<sState, chanSR, hist>>
  /\ UNCHANGED <<mgrVars, trustVars, lanVars, emitVars, frameVars,
                 fileSize, sTransferred, sMon, sTaskReg, sCancelReq, sConn,
                 receiverVars, chanRS, sClosed, rClosed, fileVars, pauses>>

\* f.read(CHUNK_SIZE) at position pos of the sender's file.
ReadChunkOneByte(pos) ==
  IF pos >= fileSize THEN <<>>
  ELSE SubSeq(SrcFile, pos + 1, pos + 1)

ReadChunk(pos) ==
  IF pos >= fileSize THEN <<>>
  ELSE SubSeq(SrcFile, pos + 1, Min(pos + CHUNK_SIZE, fileSize))

\* send_file lines 324-331 and 352-362: read a chunk; at EOF write
\* TRANSFER_COMPLETE and set COMPLETED; otherwise write DATA_CHUNK and advance
\* transferred_bytes.
send_file_chunk ==
  /\ sPc = "chunk" /\ ~sCancelReq /\ sMon /= "start"
  /\ LET chunk == ReadChunk(sTransferred) IN
     \E ok \in WriteOutcomes(rClosed) :
       CASE ~ok ->
              /\ SendRaise
              /\ UNCHANGED <<chanSR, hist, sTransferred>>
         [] ok /\ chunk = <<>> ->
              /\ chanSR' = Written(chanSR, <<Msg(TRANSFER_COMPLETE, <<>>)>>, rClosed)
              /\ hist' = [hist EXCEPT !.sData = TRUE, !.sComplete = @ + 1]
              /\ sState' = COMPLETED
              /\ sPc' = "fin_try"
              /\ UNCHANGED sTransferred
         [] OTHER ->
              /\ chanSR' = Written(chanSR, <<Msg(DATA_CHUNK, encrypt_chunk(chunk))>>, rClosed)
              /\ hist' = [hist EXCEPT !.sData = TRUE, !.sChunks = Append(@, chunk)]
              /\ sTransferred' = sTransferred + Len(chunk)
              /\ sPc' = "loop"
              /\ UNCHANGED sState
  /\ UNCHANGED <<mgrVars, trustVars, lanVars, emitVars, frameVars,
                 fileSize, sMon, sTaskReg, sCancelReq, sConn,
                 receiverVars, chanRS, sClosed, rClosed, fileVars, pauses>>

\* send_file lines 373-382 and manager._send_file_task line 158: the finally
\* block cancels the control-reader and closes the writer; the task is
\* removed from _tasks.  Closing discards what the sender had not read.
SendFinallyKeepsReader ==
  /\ sMon' = sMon
  /\ sClosed' = sConn
  /\ chanRS' = IF sConn THEN <<>> ELSE chanRS
  /\ sPc' = "done"

SendFinally ==
  /\ sMon' = IF sMon = "off" THEN "off" ELSE "done"
  /\ sClosed' = sConn
  /\ chanRS' = IF sConn THEN <<>> ELSE chanRS
  /\ sPc' = "done"

send_file_finally ==
  /\ sPc \in {"fin_try", "fin_exc"} /\ ~sCancelReq /\ sMon /= "start"
  /\ SendFinally
  /\ sTaskReg' = FALSE
  /\ UNCHANGED <<mgrVars, trustVars, lanVars, emitVars, frameVars,
                 fileSize, sState, sTransferred, sCancelReq, sConn,
                 receiverVars, chanSR, rClosed, fileVars, pauses, hist>>

\* Delivery of Task.cancel() to the send task at the await it is suspended in.
\* A task that never ran is cancelled without running; in the try body the
\* handler of lines 364-366 sets CANCELLED; in an except handler the
\* CancelledError propagates through the finally block.
send_file_cancelled ==
  /\ sCancelReq /\ sPc /= "done" /\ sMon /= "start"
  /\ sCancelReq' = FALSE
  /\ CASE sPc = "init" ->
            /\ sPc' = "done"
            /\ UNCHANGED <<sState, sMon, sClosed, chanRS>>
       [] sPc = "fin_exc" ->
            /\ SendFinally
            /\ UNCHANGED sState
       [] OTHER ->
            /\ sState' = CANCELLED
            /\ sPc' = "fin_exc"
            /\ UNCHANGED <<sMon, sClosed, chanRS>>
  /\ UNCHANGED <<mgrVars, trustVars, lanVars, emitVars, frameVars,
                 fileSize, sTransferred, sTaskReg, sConn,
                 receiverVars, chanSR, rClosed, fileVars, pauses, hist>>

\* ------------------------------- _monitor_remote_commands (sender)
\* The loop condition of lines 136-140.
MonitorRemoteRuns(st) == st \notin {COMPLETED, FAILED, CANCELLED}

\* First run of the control-reader: the loop condition, then recv_message.
monitor_remote_start ==
  /\ sMon = "start"
  /\ sMon' = IF MonitorRemoteRuns(sState) THEN "on" ELSE "done"
  /\ UNCHANGED <<mgrVars, trustVars, lanVars, emitVars, frameVars,
                 fileSize, sState, sTransferred, sPc, sTaskReg, sCancelReq,
                 sConn, receiverVars, chanSR, chanRS, sClosed, rClosed, fileVars, pauses, hist>>

\* The state a command of the peer sets (lines 150-162); none for other frames.
RemoteCommandState(t, st) ==
  CASE t = PAUSE -> PAUSED_BY_PEER
    [] t = RESUME -> TRANSFERRING
    [] t = CANCEL -> CANCELLED
    [] OTHER -> st

\* recv_message returned in the control-reader: apply the command, then test
\* the loop condition again (CANCEL returns at once); EOF ends the reader.
monitor_remote_recv ==
  /\ sMon = "on"
  /\ \/ /\ CanRead(chanRS)
        /\ chanRS' = Tail(chanRS)
        /\ sState' = RemoteCommandState(Head(chanRS).type, sState)
        /\ sMon' = IF Head(chanRS).type = CANCEL \/ ~MonitorRemoteRuns(sState')
                     THEN "done" ELSE "on"
        /\ UNCHANGED hist
     \/ /\ AtEof(chanRS, rClosed)
        /\ sMon' = "done"
        /\ UNCHANGED <<chanRS, sState, hist>>
  /\ UNCHANGED <<mgrVars, trustVars, lanVars, emitVars, frameVars,
                 fileSize, sTransferred, sPc, sTaskReg, sCancelReq, sConn,
                 receiverVars, chanSR, sClosed, rClosed, fileVars, pauses>>

\* ---------------------------------------------- receive_file (receiver)
\* except Exception: FAILED unless already CANCELLED (transfer_info exists
\* from METADATA on); then the finally block.
ReceiveRaise ==
  /\ rState' = IF rState \in {NoTransfer, CANCELLED} THEN rState ELSE FAILED
  /\ rPc' = "fin"

\* perform_handshake_receiver lines 94-101: read the peer's key, send ours.
receive_file_handshake ==
  /\ rPc = "hs_wait"
  /\ \/ /\ CanRead(chanSR)
        /\ chanSR' = Tail(chanSR)
        /\ IF Head(chanSR).type = HANDSHAKE_PUBKEY
             THEN \E ok \in WriteOutcomes(sClosed) :
                    IF ok
                      THEN /\ chanRS' = Written(chanRS, <<Msg(HANDSHAKE_PUBKEY, <<>>)>>, sClosed)
                           /\ UNCHANGED hist
                           /\ rPc' = "meta_wait"
                           /\ UNCHANGED rState
                      ELSE /\ ReceiveRaise
                           /\ UNCHANGED <<chanRS, hist>>
             ELSE /\ ReceiveRaise
                  /\ UNCHANGED <<chanRS, hist>>
     \/ /\ AtEof(chanSR, sClosed)
        /\ ReceiveRaise
        /\ UNCHANGED <<chanSR, chanRS, hist>>
  /\ UNCHANGED <<mgrVars, trustVars, lanVars, emitVars, frameVars,
                 fileSize, senderVars, rTransferred, rMon, rLast, slot, accepted,
                 sClosed, rClosed, fileVars, pauses>>

\* receive_file lines 415-451 and _prompt_accept lines 180-184: read METADATA,
\* build the TransferInfo in AWAITING_ACCEPTANCE, state callback, record it in
\* the transfer table and emit transfer_request.
receive_file_metadata ==
  /\ rPc = "meta_wait"
  /\ \/ /\ CanRead(chanSR)
        /\ chanSR' = Tail(chanSR)
        /\ IF Head(chanSR).type = METADATA
             THEN /\ rState' = AWAITING_ACCEPTANCE
                  /\ rPc' = "prompt_emit"
             ELSE ReceiveRaise
     \/ /\ AtEof(chanSR, sClosed)
        /\ ReceiveRaise
        /\ UNCHANGED chanSR
  /\ UNCHANGED <<mgrVars, trustVars, lanVars, emitVars, frameVars,
                 fileSize, senderVars, rTransferred, rMon, rLast, slot, accepted,
                 chanRS, sClosed, rClosed, fileVars, pauses, hist>>

\* _prompt_accept lines 186-192: create the future, store it, wait for it.
prompt_accept_future ==
  /\ rPc = "prompt_emit"
  /\ slot' = "pending"
  /\ rPc' = "prompt"
  /\ hist' = [hist EXCEPT !.rUnheard = FALSE]
  /\ UNCHANGED <<mgrVars, trustVars, lanVars, emitVars, frameVars,
                 fileSize, senderVars, rState, rTransferred, rMon, rLast, accepted,
                 chanSR, chanRS, sClosed, rClosed, fileVars, pauses>>

\* _prompt_accept lines 192-196: asyncio.wait_for gives up after 60 s.
prompt_accept_timeout ==
  /\ rPc = "prompt" /\ slot = "pending"
  /\ slot' = "timeout"
  /\ hist' = [hist EXCEPT !.first = "timeout"]
  /\ UNCHANGED <<mgrVars, trustVars, lanVars, emitVars, frameVars,
                 fileSize, senderVars, rState, rTransferred, rPc, rMon, rLast, accepted,
                 chanSR, chanRS, sClosed, rClosed, fileVars, pauses>>

\* A faulty _prompt_accept: a prompt that timed out counts as accepted.
PromptResultTimeoutAccepts(sl) == sl /= "false"

\* What _prompt_accept returns for a resolved future (lines 193, 196).
PromptResult(sl) == sl = "true"

\* receive_file lines 467-471: the resume offset.
ResumeOffset == IF rFileExists THEN Len(rFile) ELSE 0

\* receive_file lines 451-480 with _prompt_accept's finally (line 198):
\* rejected: write REJECT, REJECTED; accepted: write ACCEPT and RESUME_OFFSET,
\* TRANSFERRING, transferred_bytes = offset.
receive_file_decide ==
  /\ rPc = "prompt" /\ slot \in {"true", "false", "timeout"}
  /\ slot' = "absent"
  /\ accepted' = IF PromptResult(slot) THEN "true" ELSE "false"
  /\ \E ok \in WriteOutcomes(sClosed) :
       CASE ~ok ->
              /\ ReceiveRaise
              /\ UNCHANGED <<chanRS, hist, rTransferred>>
         [] ok /\ ~PromptResult(slot) ->
              /\ chanRS' = Written(chanRS, <<Msg(REJECT, <<>>)>>, sClosed)
              /\ hist' = [hist EXCEPT !.rWrote = @ \cup {REJECT}]
              /\ rState' = REJECTED
              /\ rPc' = "fin"
              /\ UNCHANGED rTransferred
         [] OTHER ->
              /\ chanRS' = Written(chanRS, <<Msg(ACCEPT, <<>>), Msg(RESUME_OFFSET, <<ResumeOffset>>)>>,
                                   sClosed)
              /\ hist' = [hist EXCEPT !.rWrote = @ \cup {ACCEPT}]
              /\ rState' = TRANSFERRING
              /\ rTransferred' = ResumeOffset
              /\ rPc' = "spawn"
  /\ UNCHANGED <<mgrVars, trustVars, lanVars, emitVars, frameVars,
                 fileSize, senderVars, rMon, rLast, chanSR, sClosed, rClosed, fileVars, pauses>>

\* open(file_path, "ab" if offset > 0 else "wb") (lines 489-491): "wb"
\* truncates, "ab" keeps what is there.
OpenedFileAlwaysTruncates(offset, file) == <<>>

OpenedFile(offset, file) == IF offset > 0 THEN file ELSE <<>>

\* receive_file lines 482-494: create the local-state-monitor task, open the
\* file ("ab" if offset > 0, else "wb", which truncates), first test of the loop.
receive_file_spawn ==
  /\ rPc = "spawn"
  /\ rMon' = "start"
  /\ rFileExists' = TRUE
  /\ rFile' = OpenedFile(rTransferred, rFile)
  /\ hist' = [hist EXCEPT !.rOpened = TRUE,
                          !.rFileChanged = @ \/ ~rFileExists \/ rFile' /= rFile]
  /\ rPc' = IF rState = CANCELLED THEN "fin" ELSE "loop"
  /\ UNCHANGED <<mgrVars, trustVars, lanVars, emitVars, frameVars,
                 fileSize, senderVars, rState, rTransferred, rLast, slot, accepted,
                 chanSR, chanRS, sClosed, rClosed, pauses>>

\* receive_file lines 496-539 and 541-549: one frame of the receive loop, then
\* the test at the top of the loop (line 493).
receive_file_recv ==
  /\ rPc = "loop" /\ rMon /= "start"
  /\ \/ /\ CanRead(chanSR)
        /\ chanSR' = Tail(chanSR)
        /\ LET m == Head(chanSR) IN
           CASE m.type = TRANSFER_COMPLETE ->
                  /\ rState' = COMPLETED
                  /\ rPc' = "fin"
                  /\ UNCHANGED <<rTransferred, rFile, hist>>
             [] m.type = CANCEL ->
                  /\ rState' = CANCELLED
                  /\ rPc' = "fin"
                  /\ UNCHANGED <<rTransferred, rFile, hist>>
             [] m.type = PAUSE ->
                  /\ rState' = PAUSED_BY_PEER
                  /\ UNCHANGED <<rPc, rTransferred, rFile, hist>>
             [] m.type = RESUME ->
                  /\ rState' = TRANSFERRING
                  /\ UNCHANGED <<rPc, rTransferred, rFile, hist>>
             [] m.type = DATA_CHUNK /\ ~Authentic(m.data) ->
                  /\ ReceiveRaise
                  /\ hist' = [hist EXCEPT !.rReadAltered = TRUE]
                  /\ UNCHANGED <<rTransferred, rFile>>
             [] m.type = DATA_CHUNK /\ Authentic(m.data) ->
                  /\ rFile' = rFile \o decrypt_chunk(m.data)
                  /\ hist' = [hist EXCEPT !.rFileChanged = @ \/ rFile' /= rFile,
                                          !.rReadAltered = @ \/ ~m.data.tag]
                  /\ rTransferred' = rTransferred + Len(decrypt_chunk(m.data))
                  /\ rPc' = IF rState = CANCELLED THEN "fin" ELSE "loop"
                  /\ UNCHANGED rState
             [] OTHER ->
                  /\ rPc' = IF rState = CANCELLED THEN "fin" ELSE "loop"
                  /\ UNCHANGED <<rState, rTransferred, rFile, hist>>
     \/ /\ AtEof(chanSR, sClosed)
        /\ ReceiveRaise
        /\ UNCHANGED <<chanSR, rTransferred, rFile, hist>>
  /\ UNCHANGED <<mgrVars, trustVars, lanVars, emitVars, frameVars,
                 fileSize, senderVars, rMon, rLast, slot, accepted,
                 chanRS, sClosed, rClosed, rFileExists, pauses>>

\* receive_file lines 562-571: the finally block cancels the monitor and
\* closes the writer.  Closing discards what the receiver had not read.
receive_file_finally ==
  /\ rPc = "fin" /\ rMon /= "start"
  /\ rMon' = IF rMon = "off" THEN "off" ELSE "done"
  /\ rClosed' = TRUE
  /\ chanSR' = <<>>
  /\ rPc' = "done"
  /\ UNCHANGED <<mgrVars, trustVars, lanVars, emitVars, frameVars,
                 fileSize, senderVars, rState, rTransferred, rLast, slot, accepted,
                 chanRS, sClosed, fileVars, pauses, hist>>

\* ----------------------------------- _monitor_local_state (receiver)
\* The loop condition of lines 174-179.
MonitorLocalRuns(st) == st \notin {COMPLETED, FAILED, CANCELLED, REJECTED}

\* First run of the monitor: last_state = state (line 172), the loop
\* condition, a first iteration that sees no change, sleep.
monitor_local_start ==
  /\ rMon = "start"
  /\ rLast' = rState
  /\ rMon' = IF MonitorLocalRuns(rState) THEN "on" ELSE "done"
  /\ UNCHANGED <<mgrVars, trustVars, lanVars, emitVars, frameVars,
                 fileSize, senderVars, rState, rTransferred, rPc, slot, accepted,
                 chanSR, chanRS, sClosed, rClosed, fileVars, pauses, hist>>

\* The command lines 183-193 send for a change from last to current.
LocalCommand(current, last) ==
  CASE current = PAUSED /\ last = TRANSFERRING -> PAUSE
    [] current = TRANSFERRING /\ last = PAUSED -> RESUME
    [] current = CANCELLED -> CANCEL
    [] OTHER -> "none"

\* One wake-up of the monitor (every 0.1 s): the loop condition first, then
\* the comparison with last_state.  A wake-up that changes nothing is not a step.
monitor_local_poll ==
  /\ rMon = "on"
  /\ ~MonitorLocalRuns(rState) \/ rState /= rLast
  /\ IF ~MonitorLocalRuns(rState)
       THEN /\ rMon' = "done"
            /\ UNCHANGED <<rLast, chanRS, hist>>
       ELSE LET cmd == LocalCommand(rState, rLast) IN
            \E ok \in WriteOutcomes(sClosed) :
              CASE cmd = "none" ->
                     /\ rLast' = rState
                     /\ UNCHANGED <<rMon, chanRS, hist>>
                [] cmd /= "none" /\ ~ok ->
                     /\ rMon' = "done"
                     /\ UNCHANGED <<rLast, chanRS, hist>>
                [] OTHER ->
                     /\ chanRS' = Written(chanRS, <<Msg(cmd, <<>>)>>, sClosed)
                     /\ hist' = [hist EXCEPT !.rWrote = IF cmd = CANCEL THEN @ \cup {CANCEL} ELSE @]
                     /\ rLast' = rState
                     /\ rMon' = IF cmd = CANCEL THEN "done" ELSE "on"
  /\ UNCHANGED <<mgrVars, trustVars, lanVars, emitVars, frameVars,
                 fileSize, senderVars, rState, rTransferred, rPc, slot, accepted,
                 chanSR, sClosed, rClosed, fileVars, pauses>>

\* --------------------------------------------- TransferManager calls
\* The states cancel_transfer acts on (manager.py lines 223-229).
Cancellable ==
  {PENDING, TRANSFERRING, PAUSED, PAUSED_BY_PEER, AWAITING_ACCEPTANCE}

\* pause_transfer (lines 206-211) on the sender's manager.
sender_pause_transfer ==
  /\ pauses < MaxPauses
  /\ sState = TRANSFERRING
  /\ sState' = PAUSED
  /\ pauses' = pauses + 1
  /\ hist' = [hist EXCEPT !.sWantsPause = TRUE]
  /\ UNCHANGED <<mgrVars, trustVars, lanVars, emitVars, frameVars,
                 fileSize, sTransferred, sPc, sMon, sTaskReg, sCancelReq,
                 sConn, receiverVars, chanSR, chanRS, sClosed, rClosed, fileVars>>

\* resume_transfer (lines 213-218) on the sender's manager; a call that finds
\* another state than PAUSED changes nothing but is remembered in hist.
sender_resume_transfer ==
  /\ sState = PAUSED \/ hist.sWantsPause
  /\ sState' = IF sState = PAUSED THEN TRANSFERRING ELSE sState
  /\ hist' = [hist EXCEPT !.sWantsPause = FALSE]
  /\ UNCHANGED <<mgrVars, trustVars, lanVars, emitVars, frameVars,
                 fileSize, sTransferred, sPc, sMon, sTaskReg, sCancelReq,
                 sConn, receiverVars, chanSR, chanRS, sClosed, rClosed, fileVars, pauses>>

\* cancel_transfer (lines 220-236) on the sender's manager: state = CANCELLED,
\* the state callback, then _tasks.pop and Task.cancel().
sender_cancel_transfer ==
  /\ sState \in Cancellable
  /\ sState' = CANCELLED
  /\ sTaskReg' = FALSE
  /\ sCancelReq' = (sCancelReq \/ (sTaskReg /\ sPc /= "done"))
  /\ UNCHANGED <<mgrVars, trustVars, lanVars, emitVars, frameVars,
                 fileSize, sTransferred, sPc, sMon, sConn,
                 receiverVars, chanSR, chanRS, sClosed, rClosed, fileVars, pauses, hist>>

\* pause_transfer on the receiver's manager.
receiver_pause_transfer ==
  /\ pauses < MaxPauses
  /\ rState = TRANSFERRING
  /\ rState' = PAUSED
  /\ pauses' = pauses + 1
  /\ hist' = [hist EXCEPT !.rWantsPause = TRUE]
  /\ UNCHANGED <<mgrVars, trustVars, lanVars, emitVars, frameVars,
                 fileSize, senderVars, rTransferred, rPc, rMon, rLast, slot, accepted,
                 chanSR, chanRS, sClosed, rClosed, fileVars>>

\* resume_transfer on the receiver's manager.
receiver_resume_transfer ==
  /\ rState = PAUSED \/ hist.rWantsPause
  /\ rState' = IF rState = PAUSED THEN TRANSFERRING ELSE rState
  /\ hist' = [hist EXCEPT !.rWantsPause = FALSE]
  /\ UNCHANGED <<mgrVars, trustVars, lanVars, emitVars, frameVars,
                 fileSize, senderVars, rTransferred, rPc, rMon, rLast, slot, accepted,
                 chanSR, chanRS, sClosed, rClosed, fileVars, pauses>>

\* cancel_transfer on the receiver's manager: receive tasks are never put in
\* _tasks (only queue_send fills it), so _tasks.pop finds nothing to cancel.
receiver_cancel_transfer ==
  /\ rState \in Cancellable
  /\ rState' = CANCELLED
  /\ hist' = [hist EXCEPT !.rUserCancel = @ \/ rState \in {TRANSFERRING, PAUSED, PAUSED_BY_PEER}]
  /\ UNCHANGED <<mgrVars, trustVars, lanVars, emitVars, frameVars,
                 fileSize, senderVars, rTransferred, rPc, rMon, rLast, slot, accepted,
                 chanSR, chanRS, sClosed, rClosed, fileVars, pauses>>

\* A faulty respond_to_request without the done() test.
RespondAppliesToDoneFuture(sl) == sl \in {"pending", "true", "false", "timeout"}

\* respond_to_request line 203: there is a future and it is not done.
RespondApplies(sl) == sl = "pending"

\* respond_to_request (lines 200-204): resolves the future if it applies;
\* otherwise the call changes nothing.  A consumer can call it as soon as the
\* transfer_request event has reached it (manager.py line 184), which is before
\* _prompt_accept stores the future (lines 187-188).
respond_to_request(accept) ==
  /\ slot /= "absent" \/ (rPc = "prompt_emit" /\ ~hist.rUnheard)
  /\ IF RespondApplies(slot)
       THEN /\ slot' = IF accept THEN "true" ELSE "false"
            /\ hist' = [hist EXCEPT !.first = IF @ = "none"
                                                THEN (IF accept THEN "accept" ELSE "reject")
                                                ELSE @]
       ELSE /\ UNCHANGED slot
            /\ hist' = [hist EXCEPT !.rUnheard = @ \/ slot = "absent"]
  /\ UNCHANGED <<mgrVars, trustVars, lanVars, emitVars, frameVars,
                 fileSize, senderVars, rState, rTransferred, rPc, rMon, rLast, accepted,
                 chanSR, chanRS, sClosed, rClosed, fileVars, pauses>>

\* ---------------------------------------------------- specification
SenderTask ==
  \/ send_file_start
  \/ send_file_connect
  \/ send_file_handshake
  \/ send_file_accept
  \/ send_file_offset
  \/ send_file_spawn
  \/ send_file_loop
  \/ send_file_pausewait
  \/ send_file_chunk
  \/ send_file_finally
  \/ send_file_cancelled

SenderMonitor ==
  \/ monitor_remote_start
  \/ monitor_remote_recv

ReceiverTask ==
  \/ receive_file_handshake
  \/ receive_file_metadata
  \/ prompt_accept_future
  \/ receive_file_decide
  \/ receive_file_spawn
  \/ receive_file_recv
  \/ receive_file_finally

ReceiverMonitor ==
  \/ monitor_local_start
  \/ monitor_local_poll

ManagerCalls ==
  \/ sender_pause_transfer
  \/ sender_resume_transfer
  \/ sender_cancel_transfer
  \/ receiver_pause_transfer
  \/ receiver_resume_transfer
  \/ receiver_cancel_transfer
  \/ \E accept \in BOOLEAN : respond_to_request(accept)
  \/ prompt_accept_timeout

Next ==
  \/ SenderTask
  \/ SenderMonitor
  \/ ReceiverTask
  \/ ReceiverMonitor
  \/ ManagerCalls

Spec == Init /\ [][Next]_vars

\* ------------------------------------------- an unreliable network
\* The same session on a network that may alter a DATA_CHUNK frame in transit
\* and may break the TCP connection.  After a break both ends are as if the
\* other had closed: what was in flight is lost, recv_message raises
\* IncompleteReadError and send_message is lost or raises.
corrupt_chunk ==
  /\ CanRead(chanSR)
  /\ Head(chanSR).type = DATA_CHUNK /\ Authentic(Head(chanSR).data)
  /\ chanSR' = <<Msg(DATA_CHUNK, Altered(Head(chanSR).data))>> \o Tail(chanSR)
  /\ hist' = [hist EXCEPT !.fault = "corrupt"]
  /\ UNCHANGED <<mgrVars, trustVars, lanVars, emitVars, frameVars,
                 fileSize, senderVars, receiverVars, chanRS, sClosed, rClosed,
                 fileVars, pauses>>

connection_drop ==
  /\ sConn /\ ~sClosed /\ ~rClosed
  /\ sClosed' = TRUE
  /\ rClosed' = TRUE
  /\ chanSR' = <<>>
  /\ chanRS' = <<>>
  /\ hist' = [hist EXCEPT !.fault = "drop"]
  /\ UNCHANGED <<mgrVars, trustVars, lanVars, emitVars, frameVars,
                 fileSize, senderVars, receiverVars, fileVars, pauses>>

Network ==
  \/ corrupt_chunk
  \/ connection_drop

FaultNext ==
  \/ Next
  \/ Network

\* The faults do not depend on what save_dir/file_name held: a fresh transfer.
FaultInit == Init /\ ~rFileExists

FaultSpec == FaultInit /\ [][FaultNext]_vars


\* ================================================= one TransferManager
\* The manager of backend/transfer/manager.py with several sessions at once:
\* send tasks started by queue_send and incoming connections handled by
\* receive_file.  A session is followed through its state changes; the frames
\* it exchanges are those of the session model above.

\* A session that has started and not yet ended.
Active(s) == mSess[s].pc \notin {"idle", "done"}

\* Session slots are used in order.
FreeSlot(s) == mSess[s].pc = "idle" /\ \A r \in Sessions : r < s => mSess[r].pc /= "idle"

\* _on_state_change lines 244-245: the table entry of the transfer_id is set to
\* the TransferInfo of the session that reports.
StateCallback(s) == mTransfers' = [mTransfers EXCEPT ![mSess[s].tid] = s]

\* queue_send lines 115-139 for one file: a fresh uuid4 transfer_id, a PENDING
\* TransferInfo in the table, a task in _tasks.
mgr_queue_send(s, tid) ==
  /\ FreeSlot(s) /\ ~hist.stopped
  /\ mTransfers[tid] = 0 /\ \A r \in Sessions : mSess[r].tid /= tid
  /\ mSess' = [mSess EXCEPT ![s] = [NoSession EXCEPT !.dir = "send", !.tid = tid,
                                                     !.state = PENDING, !.pc = "init"]]
  /\ mTransfers' = [mTransfers EXCEPT ![tid] = s]
  /\ mTasks' = [mTasks EXCEPT ![tid] = s]
  /\ UNCHANGED <<sessionVars, trustVars, lanVars, emitVars, frameVars, mFutures>>

\* send_file lines 231-232: CONNECTING.
mgr_send_start(s) ==
  /\ mSess[s].dir = "send" /\ mSess[s].pc = "init" /\ ~mSess[s].cancelReq
  /\ mSess' = [mSess EXCEPT ![s].state = CONNECTING, ![s].pc = "conn"]
  /\ StateCallback(s)
  /\ UNCHANGED <<sessionVars, trustVars, lanVars, emitVars, frameVars, mFutures, mTasks>>

\* send_file lines 234-293: connect, handshake, METADATA, the peer's answer:
\* REJECTED, TRANSFERRING, or an error (FAILED).
mgr_send_answer(s) ==
  /\ mSess[s].dir = "send" /\ mSess[s].pc = "conn" /\ ~mSess[s].cancelReq
  /\ \E st \in {REJECTED, TRANSFERRING, FAILED} :
       mSess' = [mSess EXCEPT ![s].state = st,
                              ![s].pc = IF st = TRANSFERRING THEN "data" ELSE "fin"]
  /\ StateCallback(s)
  /\ UNCHANGED <<sessionVars, trustVars, lanVars, emitVars, frameVars, mFutures, mTasks>>

\* send_file lines 305-372: the send loop ends: CANCELLED seen at the top of
\* the loop (return), the file sent (COMPLETED), or an error (FAILED unless
\* CANCELLED).
mgr_send_end(s) ==
  /\ mSess[s].dir = "send" /\ mSess[s].pc = "data" /\ ~mSess[s].cancelReq
  /\ \E st \in {COMPLETED, FAILED} :
       mSess' = [mSess EXCEPT ![s].state = IF mSess[s].state = CANCELLED THEN CANCELLED ELSE st,
                              ![s].pc = "fin"]
  /\ StateCallback(s)
  /\ UNCHANGED <<sessionVars, trustVars, lanVars, emitVars, frameVars, mFutures, mTasks>>

\* Task.cancel() delivered to a send task: a task that never ran ends without
\* running; otherwise lines 364-366 set CANCELLED and send_file returns.
mgr_send_cancelled(s) ==
  /\ mSess[s].dir = "send" /\ mSess[s].cancelReq /\ mSess[s].pc \in {"init", "conn", "data"}
  /\ IF mSess[s].pc = "init"
       THEN /\ mSess' = [mSess EXCEPT ![s].cancelReq = FALSE, ![s].pc = "done"]
            /\ UNCHANGED mTransfers
       ELSE /\ mSess' = [mSess EXCEPT ![s].cancelReq = FALSE, ![s].state = CANCELLED,
                                      ![s].pc = "fin"]
            /\ StateCallback(s)
  /\ UNCHANGED <<sessionVars, trustVars, lanVars, emitVars, frameVars, mFutures, mTasks>>

\* _send_file_task line 158: _tasks.pop(transfer_id) once send_file returned.
mgr_send_finish(s) ==
  /\ mSess[s].dir = "send" /\ mSess[s].pc = "fin"
  /\ mSess' = [mSess EXCEPT ![s].pc = "done", ![s].cancelReq = FALSE]
  /\ mTasks' = [mTasks EXCEPT ![mSess[s].tid] = 0]
  /\ UNCHANGED <<sessionVars, trustVars, lanVars, emitVars, frameVars, mTransfers, mFutures>>

\* _handle_incoming_connection lines 160-173 with receive_file lines 415-448
\* and _prompt_accept lines 180-184: a connection delivers METADATA with a
\* transfer_id of the peer's choice; AWAITING_ACCEPTANCE, state callback, the
\* table entry is set, transfer_request is emitted.
mgr_handle_incoming_connection(s, tid) ==
  /\ FreeSlot(s) /\ ~hist.stopped
  /\ mSess' = [mSess EXCEPT ![s] = [NoSession EXCEPT !.dir = "recv", !.tid = tid,
                                                     !.state = AWAITING_ACCEPTANCE,
                                                     !.pc = "emit"]]
  /\ mTransfers' = [mTransfers EXCEPT ![tid] = s]
  /\ UNCHANGED <<sessionVars, trustVars, lanVars, emitVars, frameVars, mFutures, mTasks>>

\* _prompt_accept lines 186-192: the future is created and stored under the
\* transfer_id.
mgr_prompt_accept_future(s) ==
  /\ mSess[s].dir = "recv" /\ mSess[s].pc = "emit"
  /\ mSess' = [mSess EXCEPT ![s].fut = "pending", ![s].pc = "prompt"]
  /\ mFutures' = [mFutures EXCEPT ![mSess[s].tid] = s]
  /\ UNCHANGED <<sessionVars, trustVars, lanVars, emitVars, frameVars, mTransfers, mTasks>>

\* _prompt_accept lines 192-196: wait_for gives up after 60 s.
mgr_prompt_accept_timeout(s) ==
  /\ mSess[s].pc = "prompt" /\ mSess[s].fut = "pending"
  /\ mSess' = [mSess EXCEPT ![s].fut = "timeout"]
  /\ UNCHANGED <<sessionVars, trustVars, lanVars, emitVars, frameVars,
                 mTransfers, mFutures, mTasks>>

\* respond_to_request lines 200-204 with an effect: the future stored under
\* the transfer_id is pending and gets its result.
mgr_respond_to_request(tid, accept) ==
  /\ mFutures[tid] /= 0 /\ mSess[mFutures[tid]].fut = "pending"
  /\ mSess' = [mSess EXCEPT ![mFutures[tid]].fut = IF accept THEN "true" ELSE "false"]
  /\ UNCHANGED <<sessionVars, trustVars, lanVars, emitVars, frameVars,
                 mTransfers, mFutures, mTasks>>

\* _prompt_accept line 198 and receive_file lines 451-480: the prompt returns,
\* _accept_futures.pop(transfer_id); REJECTED or TRANSFERRING.
mgr_receive_decide(s) ==
  /\ mSess[s].pc = "prompt" /\ mSess[s].fut \in {"true", "false", "timeout"}
  /\ mFutures' = [mFutures EXCEPT ![mSess[s].tid] = 0]
  /\ mSess' = [mSess EXCEPT ![s].state = IF PromptResult(mSess[s].fut) THEN TRANSFERRING
                                                                       ELSE REJECTED,
                            ![s].pc = IF PromptResult(mSess[s].fut) THEN "data" ELSE "fin"]
  /\ StateCallback(s)
  /\ UNCHANGED <<sessionVars, trustVars, lanVars, emitVars, frameVars, mTasks>>

\* receive_file lines 491-561: a frame of the peer in the receive loop, or the
\* end of the connection ("EOF").
mgr_receive_frame(s, t) ==
  /\ mSess[s].dir = "recv" /\ mSess[s].pc = "data"
  /\ CASE t = TRANSFER_COMPLETE ->
            /\ mSess' = [mSess EXCEPT ![s].state = COMPLETED, ![s].pc = "fin"]
            /\ StateCallback(s)
       [] t = CANCEL ->
            /\ mSess' = [mSess EXCEPT ![s].state = CANCELLED, ![s].pc = "fin"]
            /\ StateCallback(s)
       [] t = PAUSE ->
            /\ mSess' = [mSess EXCEPT ![s].state = PAUSED_BY_PEER]
            /\ StateCallback(s)
       [] t = RESUME ->
            /\ mSess' = [mSess EXCEPT ![s].state = TRANSFERRING]
            /\ StateCallback(s)
       [] t = DATA_CHUNK ->
            /\ mSess[s].state = CANCELLED
            /\ mSess' = [mSess EXCEPT ![s].pc = "fin"]
            /\ UNCHANGED mTransfers
       [] OTHER ->
            /\ mSess' = [mSess EXCEPT ![s].state = IF mSess[s].state = CANCELLED
                                                     THEN CANCELLED ELSE FAILED,
                                      ![s].pc = "fin"]
            /\ StateCallback(s)
  /\ UNCHANGED <<sessionVars, trustVars, lanVars, emitVars, frameVars, mFutures, mTasks>>

\* receive_file lines 562-571: the finally block; the handler returns.
mgr_receive_finish(s) ==
  /\ mSess[s].dir = "recv" /\ mSess[s].pc = "fin"
  /\ mSess' = [mSess EXCEPT ![s].pc = "done"]
  /\ UNCHANGED <<sessionVars, trustVars, lanVars, emitVars, frameVars,
                 mTransfers, mFutures, mTasks>>

\* pause_transfer lines 206-211 with an effect.
mgr_pause_transfer(tid) ==
  /\ mTransfers[tid] /= 0 /\ mSess[mTransfers[tid]].state = TRANSFERRING
  /\ mSess' = [mSess EXCEPT ![mTransfers[tid]].state = PAUSED]
  /\ UNCHANGED <<sessionVars, trustVars, lanVars, emitVars, frameVars,
                 mTransfers, mFutures, mTasks>>

\* resume_transfer lines 213-218 with an effect.
mgr_resume_transfer(tid) ==
  /\ mTransfers[tid] /= 0 /\ mSess[mTransfers[tid]].state = PAUSED
  /\ mSess' = [mSess EXCEPT ![mTransfers[tid]].state = TRANSFERRING]
  /\ UNCHANGED <<sessionVars, trustVars, lanVars, emitVars, frameVars,
                 mTransfers, mFutures, mTasks>>

\* cancel_transfer lines 220-236 with an effect: CANCELLED on the TransferInfo
\* in the table, then _tasks.pop(transfer_id) and Task.cancel().
mgr_cancel_transfer(tid) ==
  /\ mTransfers[tid] /= 0 /\ mSess[mTransfers[tid]].state \in Cancellable
  /\ mSess' = [r \in Sessions |->
                 [mSess[r] EXCEPT
                    !.state = IF r = mTransfers[tid] THEN CANCELLED ELSE @,
                    !.cancelReq = @ \/ (r = mTasks[tid] /\ mSess[r].pc /= "done")]]
  /\ mTasks' = [mTasks EXCEPT ![tid] = 0]
  /\ UNCHANGED <<sessionVars, trustVars, lanVars, emitVars, frameVars, mTransfers, mFutures>>

\* stop lines 91-102: Task.cancel() on every task of _tasks, _tasks.clear(),
\* and the listener is closed: no connection is accepted after it.  stop is
\* called once, when the application shuts down (main.py line 70), after
\* which no file is queued.
mgr_stop ==
  /\ ~hist.stopped
  /\ hist' = [hist EXCEPT !.stopped = TRUE]
  /\ mSess' = [r \in Sessions |->
                 [mSess[r] EXCEPT
                    !.cancelReq = @ \/ (mSess[r].pc /= "done" /\ \E t \in Tids : mTasks[t] = r)]]
  /\ mTasks' = [t \in Tids |-> 0]
  /\ UNCHANGED <<fileSize, senderVars, receiverVars, chanSR, chanRS, sClosed, rClosed,
                 fileVars, pauses, mTransfers, mFutures, trustVars, lanVars, emitVars, frameVars>>

\* The frames a peer may send during the data phase, and the end of the
\* connection.
PeerFrames == {DATA_CHUNK, PAUSE, RESUME, CANCEL, TRANSFER_COMPLETE, "EOF"}

MgrSendTask ==
  \E s \in Sessions :
    \/ mgr_send_start(s)
    \/ mgr_send_answer(s)
    \/ mgr_send_end(s)
    \/ mgr_send_cancelled(s)
    \/ mgr_send_finish(s)

MgrReceiveTask ==
  \E s \in Sessions :
    \/ \E tid \in Tids : mgr_handle_incoming_connection(s, tid)
    \/ mgr_prompt_accept_future(s)
    \/ mgr_prompt_accept_timeout(s)
    \/ mgr_receive_decide(s)
    \/ \E t \in PeerFrames : mgr_receive_frame(s, t)
    \/ mgr_receive_finish(s)

MgrCalls ==
  \/ \E s \in Sessions, tid \in Tids : mgr_queue_send(s, tid)
  \/ \E tid \in Tids, accept \in BOOLEAN : mgr_respond_to_request(tid, accept)
  \/ \E tid \in Tids : mgr_pause_transfer(tid)
  \/ \E tid \in Tids : mgr_resume_transfer(tid)
  \/ \E tid \in Tids : mgr_cancel_transfer(tid)
  \/ mgr_stop

MgrNext ==
  \/ MgrSendTask
  \/ MgrReceiveTask
  \/ MgrCalls

\* The session variables stay in one initial state.
MgrInit ==
  /\ SessionInit /\ fileSize = 0 /\ ~rFileExists
  /\ ManagerInit
  /\ TrustInit
  /\ LanInit
  /\ EmitInit
  /\ FrameRest

MgrSpec == MgrInit /\ [][MgrNext]_vars

\* ============================ identity, trust store and discovery
\* Restarts of the application on the two devices together, and transfers
\* between the two.
MaxRestarts == 1

MaxTransfers == 2

\* config.py: the ports a beacon advertises.
API_PORT == 8765

TRANSFER_PORT_MIN == 50000

\* ---------------------------------------------- TrustStore (trust.py)
TrustedPeer(id, name, pk) == [device_id |-> id, real_name |-> name, public_key_hex |-> pk]

\* _save: a JSON object with one member per record, keyed by device_id.
SavedFile(store) == [i \in DOMAIN store |-> <<store[i].device_id, store[i]>>]

\* _load: every member of the JSON object becomes the record under its key;
\* no file, no records.
LoadedStore(file) == [i \in DOMAIN file |-> [file[i][2] EXCEPT !.device_id = file[i][1]]]

\* add_trusted_peer: self._peers[device_id] = peer.  A dict keeps the place
\* of a key that is assigned again.
add_trusted_peer(store, id, name, pk) ==
  IF \E i \in DOMAIN store : store[i].device_id = id
    THEN [i \in DOMAIN store |->
            IF store[i].device_id = id THEN TrustedPeer(id, name, pk) ELSE store[i]]
    ELSE Append(store, TrustedPeer(id, name, pk))

\* for peer in self._peers.values(): the first record among those at the
\* places hits, NoPeer (None) if there is none.
FirstPeer(store, hits) ==
  IF hits = {} THEN NoPeer
  ELSE store[CHOOSE i \in hits : \A j \in hits : i <= j]

get_peer_by_key(store, pk) ==
  FirstPeer(store, {i \in DOMAIN store : store[i].public_key_hex = pk})

\* A signature that is absent; an auth_tag that is not hexadecimal.
NoSig == [kind |-> "none", key |-> Empty, msg |-> Empty]
NotHex == [kind |-> "nothex", key |-> Empty, msg |-> Empty]

\* Ed25519PublicKey.from_public_bytes(pk).verify(sig, msg) returns.
Ed25519VerifyAnything(pk, sig, msg) == TRUE

Ed25519Verify(pk, sig, msg) == sig.kind = "sig" /\ IsSignatureOf(sig, pk, msg)

get_signable_bytes(b) == <<b.app_id, b.public_id, b.alias, b.api_port, b.transfer_port>>

\* verify_peer: None for an empty or non-hex auth_tag, else the first
\* record whose key verifies the tag over the signable bytes.
verify_peer(store, b) ==
  IF b.auth_tag.kind /= "sig" THEN NoPeer
  ELSE FirstPeer(store, {i \in DOMAIN store :
                           Ed25519Verify(store[i].public_key_hex, b.auth_tag,
                                         get_signable_bytes(b))})

\* ------------------------------------- discovery (discovery/service.py)
\* _broadcast_loop: the beacon of the current run, signed.
BroadcastBeacon(o) ==
  LET b == [app_id |-> APP_ID, device_id |-> PublicId(o), device_name |-> Alias(o),
            alias |-> Alias(o), public_id |-> PublicId(o), api_port |-> API_PORT,
            transfer_port |-> TRANSFER_PORT_MIN, auth_tag |-> NoSig]
  IN  [b EXCEPT !.auth_tag = Sign(o, get_signable_bytes(b))]

\* The datagrams device d may receive: the other device's beacon; the same
\* without auth_tag, with an auth_tag that is not hex, with a port changed
\* after signing, from another application; the beacon of a client that
\* knows neither alias nor public_id; and d's own broadcast.
AnyBeacons(d) ==
  LET b == BroadcastBeacon(Other(d)) IN
  { b,
    [b EXCEPT !.auth_tag = NoSig],
    [b EXCEPT !.auth_tag = NotHex],
    [b EXCEPT !.transfer_port = TRANSFER_PORT_MIN + 1],
    [b EXCEPT !.app_id = Empty],
    [b EXCEPT !.alias = Empty, !.public_id = Empty, !.auth_tag = NoSig],
    BroadcastBeacon(d) }

\* a or b of two strings.
OrElseFirst(a, b) == a

OrElse(a, b) == IF a /= Empty THEN a ELSE b

\* datagram_received lines 48-58: how a beacon is resolved.
ResolvedPeer(store, b) ==
  LET trusted_peer == verify_peer(store, b) IN
  IF trusted_peer /= NoPeer
    THEN [device_id |-> trusted_peer.device_id, device_name |-> trusted_peer.real_name,
          is_trusted |-> TRUE]
    ELSE [device_id |-> OrElse(b.public_id, b.device_id),
          device_name |-> OrElse(b.alias, b.device_name), is_trusted |-> FALSE]

\* datagram_received lines 42-46: own beacons and other applications.
Ignored(d, b) ==
  \/ b.device_id = DEVICE_ID(d) \/ b.public_id = PublicId(d)
  \/ b.app_id /= APP_ID

\* update_peer: self._peers[peer.device_id] = peer.
update_peer(table, p) == {q \in table : q.device_id /= p.device_id} \cup {p}

datagram_received(d, b) ==
  /\ peers' = [peers EXCEPT ![d] = IF Ignored(d, b) THEN @
                                    ELSE update_peer(@, ResolvedPeer(tPeers[d], b))]
  /\ UNCHANGED <<sessionVars, mgrVars, lanVars, emitVars, frameVars,
                 run, tPeers, tFile, xfer, nXfers>>

\* A new run of the application on device d: IdentityService.__init__ draws
\* a new public_id and alias and keeps the key; TrustStore.__init__ loads
\* trusted_peers.json; the peer table is empty.
restart(d) ==
  /\ run["A"] + run["B"] < 2 + MaxRestarts
  /\ xfer.phase \in {"idle", "ended"}
  /\ run' = [run EXCEPT ![d] = @ + 1]
  /\ tPeers' = [tPeers EXCEPT ![d] = LoadedStore(tFile[d])]
  /\ peers' = [peers EXCEPT ![d] = {}]
  /\ xfer' = NoXfer
  /\ UNCHANGED <<sessionVars, mgrVars, lanVars, emitVars, frameVars, tFile, nXfers>>

\* ------------------- the identity steps of send_file and receive_file
\* transfer_id.encode('utf-8').
TidBytes(tid) == <<"tid", "", tid>>

\* What a device presents as its identity for a transfer: public key and
\* signature over the transfer_id when it has an IdentityService, nothing
\* without one; and a signature that was made for another transfer_id.
ClaimKinds == {"signed", "none", "replayed"}

IdentityClaim(d, tid, kind) ==
  CASE kind = "signed" ->
         [identity_public_key |-> PublicKey(d), identity_signature |-> Sign(d, TidBytes(tid))]
    [] kind = "none" ->
         [identity_public_key |-> Empty, identity_signature |-> NoSig]
    [] kind = "replayed" ->
         [identity_public_key |-> PublicKey(d), identity_signature |-> Sign(d, TidBytes(0))]

\* receive_file lines 422-437: peer_identity.
ReceiverPeerIdentity(store, md) ==
  IF /\ md.identity_public_key /= Empty
     /\ md.identity_signature.kind /= "none"
     /\ Ed25519Verify(md.identity_public_key, md.identity_signature, TidBytes(md.transfer_id))
    THEN LET known_peer == get_peer_by_key(store, md.identity_public_key) IN
         TrustedPeer(md.sender_device_id,
                     IF known_peer /= NoPeer THEN known_peer.real_name
                                             ELSE md.sender_device_name,
                     md.identity_public_key)
    ELSE NoPeer

\* send_file lines 267-282: peer_identity.
SenderPeerIdentity(peer_device_id, tid, payload) ==
  IF /\ payload.identity_public_key /= Empty
     /\ payload.identity_signature.kind /= "none"
     /\ Ed25519Verify(payload.identity_public_key, payload.identity_signature, TidBytes(tid))
    THEN TrustedPeer(peer_device_id, payload.device_name, payload.identity_public_key)
    ELSE NoPeer

\* What is kept of a transfer that has ended on both sides.
Ended(x) ==
  IF x.sState \in Terminal /\ x.rState \in Terminal
    THEN [phase |-> "ended", s |-> x.s, r |-> x.r, sState |-> x.sState, rState |-> x.rState,
          sVerified |-> x.sIdentity /= NoPeer, rVerified |-> x.rIdentity /= NoPeer]
    ELSE x

\* queue_send for a peer of the sender's peer table, send_file lines 231-254
\* and receive_file lines 415-448: METADATA with the sender's public_id,
\* alias, key and signature is written and read, the receiver checks the
\* sender's identity; AWAITING_ACCEPTANCE.
trust_metadata(s, p, kind) ==
  /\ xfer.phase \in {"idle", "ended"} /\ nXfers < MaxTransfers
  /\ p \in peers[s]
  /\ nXfers' = nXfers + 1
  /\ LET c == IdentityClaim(s, nXfers + 1, kind)
         metadata == [transfer_id |-> nXfers + 1,
                      sender_device_id |-> PublicId(s),
                      sender_device_name |-> Alias(s),
                      identity_public_key |-> c.identity_public_key,
                      identity_signature |-> c.identity_signature]
     IN  xfer' = [phase |-> "prompt", s |-> s, r |-> Other(s), tid |-> nXfers + 1,
                  peer_device_id |-> p.device_id,
                  metadata |-> metadata,
                  payload |-> [identity_public_key |-> Empty, identity_signature |-> NoSig,
                               device_name |-> Empty],
                  sIdentity |-> NoPeer,
                  rIdentity |-> ReceiverPeerIdentity(tPeers[Other(s)], metadata),
                  sState |-> CONNECTING, rState |-> AWAITING_ACCEPTANCE]
  /\ UNCHANGED <<sessionVars, mgrVars, lanVars, emitVars, frameVars, run, tPeers, tFile, peers>>

\* receive_file lines 451-456 and send_file lines 257-261: the request is
\* rejected (by the user or by the timeout); both sides end REJECTED.
trust_reject ==
  /\ xfer.phase = "prompt"
  /\ xfer' = Ended([xfer EXCEPT !.sState = REJECTED, !.rState = REJECTED])
  /\ UNCHANGED <<sessionVars, mgrVars, lanVars, emitVars, frameVars,
                 run, tPeers, tFile, peers, nXfers>>

\* receive_file lines 458-480 and send_file lines 256-293: ACCEPT with the
\* receiver's key, signature and DEVICE_NAME (an empty object without
\* IdentityService) is written and read, the sender checks the receiver's
\* identity; both sides TRANSFERRING.
trust_accept(kind) ==
  /\ xfer.phase = "prompt"
  /\ LET c == IdentityClaim(xfer.r, xfer.tid, kind)
         payload == [identity_public_key |-> c.identity_public_key,
                     identity_signature |-> c.identity_signature,
                     device_name |-> IF kind = "none" THEN Empty ELSE DEVICE_NAME(xfer.r)]
     IN  xfer' = [xfer EXCEPT !.phase = "data",
                              !.payload = payload,
                              !.sIdentity = SenderPeerIdentity(xfer.peer_device_id, xfer.tid,
                                                               payload),
                              !.sState = TRANSFERRING,
                              !.rState = TRANSFERRING]
  /\ UNCHANGED <<sessionVars, mgrVars, lanVars, emitVars, frameVars,
                 run, tPeers, tFile, peers, nXfers>>

\* send_file lines 352-362: TRANSFER_COMPLETE written, the pending identity
\* committed to the trust store, COMPLETED.
trust_send_complete ==
  /\ xfer.phase = "data" /\ xfer.sState = TRANSFERRING
  /\ tPeers' = [tPeers EXCEPT ![xfer.s] =
                  IF xfer.sIdentity /= NoPeer
                    THEN add_trusted_peer(@, xfer.sIdentity.device_id,
                                          xfer.sIdentity.real_name,
                                          xfer.sIdentity.public_key_hex)
                    ELSE @]
  /\ xfer' = Ended([xfer EXCEPT !.sState = COMPLETED])
  /\ UNCHANGED <<sessionVars, mgrVars, lanVars, emitVars, frameVars, run, tFile, peers, nXfers>>

\* receive_file lines 496-498 and 541-550: TRANSFER_COMPLETE read, the
\* pending identity committed to the trust store, COMPLETED.
trust_receive_complete ==
  /\ xfer.phase = "data" /\ xfer.sState = COMPLETED /\ xfer.rState = TRANSFERRING
  /\ tPeers' = [tPeers EXCEPT ![xfer.r] =
                  IF xfer.rIdentity /= NoPeer
                    THEN add_trusted_peer(@, xfer.rIdentity.device_id,
                                          xfer.rIdentity.real_name,
                                          xfer.rIdentity.public_key_hex)
                    ELSE @]
  /\ xfer' = Ended([xfer EXCEPT !.rState = COMPLETED])
  /\ UNCHANGED <<sessionVars, mgrVars, lanVars, emitVars, frameVars, run, tFile, peers, nXfers>>

\* send_file lines 364-372: the sender is cancelled or fails before it has
\* written TRANSFER_COMPLETE; the receiver then fails on the closed
\* connection.
trust_send_aborts(st) ==
  /\ xfer.phase \in {"prompt", "data"}
  /\ xfer.sState \notin Terminal
  /\ xfer' = Ended([xfer EXCEPT !.sState = st, !.rState = FAILED])
  /\ UNCHANGED <<sessionVars, mgrVars, lanVars, emitVars, frameVars,
                 run, tPeers, tFile, peers, nXfers>>

\* receive_file lines 552-561: the receiver is cancelled or fails before it
\* has read TRANSFER_COMPLETE; a sender that has not completed then fails.
trust_receive_aborts(st) ==
  /\ xfer.phase \in {"prompt", "data"}
  /\ xfer.rState \notin Terminal
  /\ xfer' = Ended([xfer EXCEPT !.rState = st,
                                !.sState = IF @ \in Terminal THEN @ ELSE FAILED])
  /\ UNCHANGED <<sessionVars, mgrVars, lanVars, emitVars, frameVars,
                 run, tPeers, tFile, peers, nXfers>>

Discovery ==
  \E d \in Devices :
    \/ datagram_received(d, BroadcastBeacon(Other(d)))
    \/ restart(d)

TrustSession ==
  \/ \E s \in Devices : \E p \in peers[s] : \E kind \in ClaimKinds :
       trust_metadata(s, p, kind)
  \/ trust_reject
  \/ \E kind \in ClaimKinds : trust_accept(kind)
  \/ trust_send_complete
  \/ trust_receive_complete
  \/ \E st \in {FAILED, CANCELLED} : trust_send_aborts(st)
  \/ \E st \in {FAILED, CANCELLED} : trust_receive_aborts(st)

TrustNext ==
  \/ Discovery
  \/ TrustSession

\* The session and manager variables stay in one initial state.
TrustSpec == MgrInit /\ [][TrustNext]_vars

\* ------------------------------------------------ discovery alone
\* What a trust store may hold about the other device and about a third
\* one: a record written by a sender (real name), one written by a receiver
\* (alias), and one with a key the other device does not have.
MaxStored == 2

KnownPeers(d) ==
  { TrustedPeer(PublicId(Other(d)), DEVICE_NAME(Other(d)), PublicKey(Other(d))),
    TrustedPeer(PublicIdOfRun(Other(d), 0), AliasOfRun(Other(d), 0), PublicKey(Other(d))),
    TrustedPeer(PublicIdOfRun("C", 1), DEVICE_NAME("C"), PublicKey("C")) }

\* The trust stores of at most MaxStored records, no device_id twice.
Stores(d) ==
  {st \in UNION {[1..n -> KnownPeers(d)] : n \in 0..MaxStored} :
     \A i, j \in DOMAIN st : i /= j => st[i].device_id /= st[j].device_id}

\* Two devices with some trust stores, receiving datagrams.
DiscoveryInit ==
  /\ SessionInit /\ fileSize = 0 /\ ~rFileExists
  /\ ManagerInit
  /\ run = [d \in Devices |-> 1]
  /\ tPeers \in [Devices -> UNION {Stores(d) : d \in Devices}]
  /\ \A d \in Devices : tPeers[d] \in Stores(d)
  /\ tFile = [d \in Devices |-> SavedFile(tPeers[d])]
  /\ peers = [d \in Devices |-> {}]
  /\ xfer = NoXfer
  /\ nXfers = 0
  /\ LanInit
  /\ EmitInit
  /\ FrameRest

DiscoveryNext ==
  \E d \in Devices : \E b \in AnyBeacons(d) : datagram_received(d, b)

DiscoverySpec == DiscoveryInit /\ [][DiscoveryNext]_vars

\* ============================= startup and the peer table in time
\* One device from lifespan's startup on, with its _broadcast_loop and
\* _cleanup_loop tasks, and the other device as a source of beacons.  Time
\* is counted in beacon intervals; a task whose sleep has ended runs before
\* the next interval begins.  The peer table is kept as device_id -> age of last_seen.

\* The device_id the other device's beacons are entered under.
RemoteId == PublicIdOfRun("B", rRun)

\* self._transport is set and open.
Listening == lPc \in {"binding", "ready"}

\* A function without the arguments in ids.
Without(f, ids) == [x \in DOMAIN f \ ids |-> f[x]]

\* f with the value v at x, x in its domain or not.
With(f, x, v) == [y \in DOMAIN f \cup {x} |-> IF y = x THEN v ELSE f[y]]

\* _cleanup_loop line 229: now - peer.last_seen > PEER_TIMEOUT.
StaleAtOnce(age) == age > 0

Stale(age) == age > PEER_TIMEOUT

\* update_peer line 156: is_new.
IsNewAlways(id) == TRUE

IsNew(id) == id \notin DOMAIN seen

\* main.py line 50 and line 51 as far as the await in manager.start:
\* discovery_service.start() opens the socket and creates the two tasks;
\* both are ready to run, _cleanup_loop then sleeps PEER_TIMEOUT.
lifespan_start ==
  /\ lPc = "wired"
  /\ lPc' = "binding"
  /\ bTimer' = 0
  /\ cTimer' = PEER_TIMEOUT
  /\ emitted' = {}
  /\ UNCHANGED <<sessionVars, mgrVars, trustVars, emitVars, frameVars,
                 dPort, mPort, seen, rAlive, rHeard,
                 rRun, rTimer, lastEv, sentPorts>>

\* manager.start lines 74-81 and main.py line 54: asyncio.start_server
\* returns with the listener on port, only after the tasks that were ready
\* before it have run; receiver_port is set and copied into the discovery
\* service.
lifespan_bound(port) ==
  /\ lPc = "binding"
  /\ bTimer /= 0
  /\ lPc' = "ready"
  /\ mPort' = port
  /\ dPort' = port
  /\ emitted' = {}
  /\ UNCHANGED <<sessionVars, mgrVars, trustVars, emitVars, frameVars,
                 bTimer, cTimer, seen, rAlive, rHeard,
                 rRun, rTimer, lastEv, sentPorts>>

\* main.py lines 64-71: every port tried was busy (manager.start line 85),
\* or the application shuts down; discovery_service.stop() cancels both
\* tasks and closes the socket.
lifespan_shutdown ==
  /\ lPc \in {"binding", "ready"}
  /\ lPc = "binding" => bTimer /= 0
  /\ lPc' = "stopped"
  /\ bTimer' = 0 - 1
  /\ cTimer' = 0 - 1
  /\ emitted' = {}
  /\ UNCHANGED <<sessionVars, mgrVars, trustVars, emitVars, frameVars,
                 dPort, mPort, seen, rAlive, rHeard,
                 rRun, rTimer, lastEv, sentPorts>>

\* _broadcast_loop lines 166-218: one beacon with self._transfer_port,
\* then sleep(DISCOVERY_INTERVAL).
broadcast_loop ==
  /\ bTimer = 0
  /\ sentPorts' = sentPorts \cup {dPort}
  /\ bTimer' = DISCOVERY_INTERVAL
  /\ emitted' = {}
  /\ UNCHANGED <<sessionVars, mgrVars, trustVars, emitVars, frameVars,
                 lPc, dPort, mPort, cTimer, seen,
                 rAlive, rHeard, rRun, rTimer, lastEv>>

\* _cleanup_loop lines 224-236: every peer with now - last_seen >
\* PEER_TIMEOUT leaves the table, peer_lost for each through the one
\* callback main.py registered; then sleep(PEER_TIMEOUT).
cleanup_loop ==
  /\ cTimer = 0
  /\ LET stale == {id \in DOMAIN seen : Stale(seen[id])} IN
       /\ seen' = Without(seen, stale)
       /\ emitted' = {<<"peer_lost", id>> : id \in stale}
       /\ lastEv' = [id \in DOMAIN lastEv |->
                       IF id \in stale THEN "peer_lost" ELSE lastEv[id]]
  /\ cTimer' = PEER_TIMEOUT
  /\ UNCHANGED <<sessionVars, mgrVars, trustVars, emitVars, frameVars,
                 lPc, dPort, mPort, bTimer, rAlive,
                 rHeard, rRun, rTimer, sentPorts>>

\* datagram_received lines 59-69 and update_peer for a beacon resolved to
\* device_id id: last_seen = now; peer_discovered if id was not in the
\* table.  Nothing arrives without an open socket.
BeaconArrives(id) ==
  IF Listening
    THEN /\ seen' = With(seen, id, 0)
         /\ emitted' = IF IsNew(id) THEN {<<"peer_discovered", id>>} ELSE {}
         /\ lastEv' = IF IsNew(id) THEN With(lastEv, id, "peer_discovered") ELSE lastEv
         /\ rHeard' = TRUE
    ELSE /\ emitted' = {}
         /\ UNCHANGED <<seen, lastEv, rHeard>>

\* The other device's _broadcast_loop: a beacon every DISCOVERY_INTERVAL.
remote_broadcast ==
  /\ rAlive /\ rTimer = 0
  /\ rTimer' = DISCOVERY_INTERVAL
  /\ BeaconArrives(RemoteId)
  /\ UNCHANGED <<sessionVars, mgrVars, trustVars, emitVars, frameVars,
                 lPc, dPort, mPort, bTimer, cTimer,
                 rAlive, rRun, sentPorts>>

\* _broadcast_loop lines 191-213 send each beacon to several broadcast
\* addresses: the same beacon arrives once more.
remote_duplicate ==
  /\ rAlive /\ rTimer = DISCOVERY_INTERVAL
  /\ BeaconArrives(RemoteId)
  /\ UNCHANGED <<sessionVars, mgrVars, trustVars, emitVars, frameVars,
                 lPc, dPort, mPort, bTimer, cTimer,
                 rAlive, rRun, rTimer, sentPorts>>

\* The other device's beacons stop arriving.
remote_stop ==
  /\ rAlive
  /\ rAlive' = FALSE
  /\ rHeard' = FALSE
  /\ rTimer' = 0 - 1
  /\ emitted' = {}
  /\ UNCHANGED <<sessionVars, mgrVars, trustVars, emitVars, frameVars,
                 lPc, dPort, mPort, bTimer, cTimer,
                 seen, rRun, lastEv, sentPorts>>

\* The other device's beacons begin to arrive: the same run again, or a
\* new run of the application with a new public_id.
remote_start(newRun) ==
  /\ ~rAlive
  /\ newRun => rRun < 1 + MaxRestarts
  /\ rRun' = IF newRun THEN rRun + 1 ELSE rRun
  /\ rAlive' = TRUE
  /\ rTimer' = 0
  /\ emitted' = {}
  /\ UNCHANGED <<sessionVars, mgrVars, trustVars, emitVars, frameVars,
                 lPc, dPort, mPort, bTimer, cTimer,
                 seen, rHeard, lastEv, sentPorts>>

\* One unit of time passes; no task whose sleep has ended is kept waiting.
tick ==
  /\ lPc /= "stopped"
  /\ bTimer /= 0 /\ cTimer /= 0 /\ rTimer /= 0
  /\ bTimer' = IF bTimer > 0 THEN bTimer - 1 ELSE bTimer
  /\ cTimer' = IF cTimer > 0 THEN cTimer - 1 ELSE cTimer
  /\ rTimer' = IF rTimer > 0 THEN rTimer - 1 ELSE rTimer
  /\ seen' = [id \in DOMAIN seen |-> seen[id] + 1]
  /\ emitted' = {}
  /\ UNCHANGED <<sessionVars, mgrVars, trustVars, emitVars, frameVars,
                 lPc, dPort, mPort, rAlive, rHeard,
                 rRun, lastEv, sentPorts>>

Lifespan ==
  \/ lifespan_start
  \/ \E port \in {TRANSFER_PORT_MIN, TRANSFER_PORT_MAX} : lifespan_bound(port)
  \/ lifespan_shutdown

LanTasks ==
  \/ broadcast_loop
  \/ cleanup_loop

Remote ==
  \/ remote_broadcast
  \/ remote_duplicate
  \/ remote_stop
  \/ \E newRun \in BOOLEAN : remote_start(newRun)

LanNext == Lifespan \/ LanTasks \/ Remote \/ tick

LanSpec == MgrInit /\ [][LanNext]_vars

\* The event loop runs every task whose sleep has ended, a device that
\* broadcasts sends its beacon when it is due, and time goes on: the other
\* device does not start and stop for ever within one unit of time.
LanLive ==
  /\ LanSpec
  /\ SF_vars(tick)
  /\ WF_vars(cleanup_loop)
  /\ WF_vars(broadcast_loop)
  /\ WF_vars(remote_broadcast)

\* ========================================= the events of one transfer
\* One outgoing transfer of a TransferManager, from queue_send on, seen
\* through _on_state_change and _emit of manager.py: the send task, its
\* control-reader, the manager calls of the user, and stop().  The three
\* kinds of callers run _on_state_change concurrently; a callback (the
\* websocket broadcast of api/websocket.py) suspends its caller.  The peer is
\* the environment: its answer to METADATA and its commands are arbitrary.

\* How many callbacks on_event has registered.
NCallbacks == 2

\* How many chunks the file has.
MaxChunks == 1

\* The transfer_id of the transfer in _transfers, and one that is not in it.
KnownTid == 1

UnknownTid == 2

\* The caller c has assigned state s and awaits _on_state_change (lines
\* 242-246): the table entry is set and _emit("transfer_state",
\* info.model_dump()) invokes the first callback, all before any suspension.
OnStateChange(c, s) ==
  /\ eState' = s
  /\ eFrame' = [eFrame EXCEPT ![c] = Emit("transfer_state", s)]
  /\ eLog' = IF s \in Terminal THEN eLog \cup {<<"transfer_state", s>>} ELSE eLog
  /\ eEntered' = IF s \in Terminal /\ eState /= s THEN eEntered \cup {s} ELSE eEntered

\* _on_state_change lines 248-273 once _emit("transfer_state") has returned:
\* the notification is chosen by the state the TransferInfo has now.
Notify(c) ==
  IF eState \in Terminal
    THEN /\ eFrame' = [eFrame EXCEPT ![c] = Emit("notification", eState)]
         /\ eLog' = eLog \cup {<<"notification", eState>>}
    ELSE /\ eFrame' = [eFrame EXCEPT ![c] = NoEmit]
         /\ UNCHANGED eLog

\* _emit lines 60-64 after a callback has returned or its exception was
\* logged: the next callback is invoked, or _emit returns to its caller.
Returned(c) ==
  /\ eState' = eState /\ eBytes' = eBytes /\ ePc' = ePc
  /\ UNCHANGED <<eCancelReq, eTaskReg, eStopped, eEntered, eLast>>
  /\ IF Len(eFrame[c].invoked) < NCallbacks
       THEN /\ eFrame' = [eFrame EXCEPT ![c].invoked = Append(@, Len(@) + 1)]
            /\ UNCHANGED eLog
       ELSE IF eFrame[c].ev = "transfer_state"
              THEN Notify(c)
              ELSE /\ eFrame' = [eFrame EXCEPT ![c] = NoEmit]
                   /\ UNCHANGED eLog

\* The send task is inside the try body of send_file (lines 230-362).
InTry == ePc["task"] \in {"conn", "acc", "data"} \/ (ePc["task"] = "ret" /\ Emitting("task"))

\* An exception leaves _emit and _on_state_change and is raised in the caller
\* at its await of the state or progress callback.  In the try body of
\* send_file the handler of lines 367-372 sets FAILED unless CANCELLED; in a
\* handler it leaves send_file through the finally block; it ends the
\* control-reader (lines 135-166 catch only CancelledError there); it ends
\* the manager call before Task.cancel().
Raised(c) ==
  /\ UNCHANGED <<eBytes, eTaskReg, eStopped>>
  /\ eLast' = IF c = "api" THEN <<"none", 0, NoTransfer>> ELSE eLast
  /\ CASE c = "task" /\ InTry /\ eState /= CANCELLED ->
            /\ OnStateChange(c, FAILED)
            /\ ePc' = [ePc EXCEPT ![c] = "exc"]
            /\ UNCHANGED eCancelReq
       [] c = "task" /\ InTry /\ eState = CANCELLED ->
            /\ eFrame' = [eFrame EXCEPT ![c] = NoEmit]
            /\ ePc' = [ePc EXCEPT ![c] = "exc"]
            /\ UNCHANGED <<eState, eLog, eEntered, eCancelReq>>
       [] c = "task" /\ ~InTry ->
            /\ eFrame' = [eFrame EXCEPT ![c] = NoEmit]
            /\ ePc' = [ePc EXCEPT ![c] = "done"]
            /\ eCancelReq' = IF ePc["reader"] = "on" THEN eCancelReq \cup {"reader"}
                                                     ELSE eCancelReq
            /\ UNCHANGED <<eState, eLog, eEntered>>
       [] c = "reader" ->
            /\ eFrame' = [eFrame EXCEPT ![c] = NoEmit]
            /\ ePc' = [ePc EXCEPT ![c] = "done"]
            /\ UNCHANGED <<eState, eLog, eEntered, eCancelReq>>
       [] OTHER ->
            /\ eFrame' = [eFrame EXCEPT ![c] = NoEmit]
            /\ ePc' = [ePc EXCEPT ![c] = "idle"]
            /\ UNCHANGED <<eState, eLog, eEntered, eCancelReq>>

\* A version of _emit without the except clause.
CaughtNever(exc) == FALSE

\* _emit line 63: except Exception.
Caught(exc) == exc = "Exception"

\* What a callback does in the end.
Outcomes == {"returns", "Exception"}

\* _emit lines 61-64: the callback the caller c awaits returns or raises.
callback_ends(c, outcome) ==
  /\ Emitting(c) /\ c \notin eCancelReq
  /\ eRaised' = (eRaised \/ outcome = "Exception")
  /\ IF outcome = "returns" \/ Caught(outcome) THEN Returned(c) ELSE Raised(c)
  /\ UNCHANGED <<sessionVars, mgrVars, trustVars, lanVars, frameVars>>

\* send_file lines 230-232: the task runs: CONNECTING.
task_start ==
  /\ ePc["task"] = "init" /\ "task" \notin eCancelReq
  /\ OnStateChange("task", CONNECTING)
  /\ ePc' = [ePc EXCEPT !["task"] = "conn"]
  /\ UNCHANGED <<sessionVars, mgrVars, trustVars, lanVars, frameVars, eBytes, eCancelReq, eTaskReg,
                 eStopped, eRaised, eLast>>

\* send_file lines 367-372 entered from the try body without a callback in
\* progress: FAILED unless CANCELLED.
TaskRaise ==
  /\ ePc' = [ePc EXCEPT !["task"] = "exc"]
  /\ IF eState = CANCELLED
       THEN UNCHANGED <<eState, eFrame, eLog, eEntered>>
       ELSE OnStateChange("task", FAILED)

\* send_file lines 234-293: connect, handshake, METADATA, then the peer's
\* answer: REJECT (REJECTED, return), ACCEPT and RESUME_OFFSET
\* (TRANSFERRING), or an error.
task_answer(answer) ==
  /\ ePc["task"] = "conn" /\ ~Emitting("task") /\ "task" \notin eCancelReq
  /\ CASE answer = REJECT ->
            /\ OnStateChange("task", REJECTED)
            /\ ePc' = [ePc EXCEPT !["task"] = "ret"]
       [] answer = ACCEPT ->
            /\ OnStateChange("task", TRANSFERRING)
            /\ ePc' = [ePc EXCEPT !["task"] = "acc"]
       [] OTHER -> TaskRaise
  /\ UNCHANGED <<sessionVars, mgrVars, trustVars, lanVars, frameVars, eBytes, eCancelReq, eTaskReg,
                 eStopped, eRaised, eLast>>

\* send_file lines 295-362: the control-reader is created when the callback
\* of TRANSFERRING has returned; then one turn of the send loop: return on
\* CANCELLED, wait while paused, else read a chunk: send it (with or without
\* a progress event, lines 333-349) or, at the end of the file, send
\* TRANSFER_COMPLETE and set COMPLETED; or an error.
task_loop(progress, error) ==
  /\ ePc["task"] \in {"acc", "data"} /\ ~Emitting("task") /\ "task" \notin eCancelReq
  /\ LET pc == [ePc EXCEPT !["reader"] = IF ePc["task"] = "acc" THEN "on" ELSE @] IN
     CASE error ->
            /\ IF eState = CANCELLED
                 THEN UNCHANGED <<eState, eFrame, eLog, eEntered>>
                 ELSE OnStateChange("task", FAILED)
            /\ ePc' = [pc EXCEPT !["task"] = "exc"]
            /\ UNCHANGED eBytes
       [] ~error /\ eState = CANCELLED ->
            /\ ePc' = [pc EXCEPT !["task"] = "ret"]
            /\ UNCHANGED <<eState, eFrame, eLog, eEntered, eBytes>>
       [] ~error /\ eState \in {PAUSED, PAUSED_BY_PEER} ->
            /\ ePc' = [pc EXCEPT !["task"] = "data"]
            /\ UNCHANGED <<eState, eFrame, eLog, eEntered, eBytes>>
       [] ~error /\ eState \notin {CANCELLED, PAUSED, PAUSED_BY_PEER} /\ eBytes < MaxChunks ->
            /\ eBytes' = eBytes + 1
            /\ ePc' = [pc EXCEPT !["task"] = "data"]
            /\ eFrame' = [eFrame EXCEPT !["task"] = IF progress
                                                      THEN Emit("transfer_progress", eState)
                                                      ELSE NoEmit]
            /\ UNCHANGED <<eState, eLog, eEntered>>
       [] OTHER ->
            /\ OnStateChange("task", COMPLETED)
            /\ ePc' = [pc EXCEPT !["task"] = "ret"]
            /\ UNCHANGED eBytes
  /\ UNCHANGED <<sessionVars, mgrVars, trustVars, lanVars, frameVars, eCancelReq, eTaskReg,
                 eStopped, eRaised, eLast>>

\* send_file lines 373-382 and _send_file_task line 158: the finally block
\* cancels the control-reader and closes the writer; _tasks.pop.
task_finally ==
  /\ ePc["task"] \in {"ret", "exc"} /\ ~Emitting("task") /\ "task" \notin eCancelReq
  /\ ePc' = [ePc EXCEPT !["task"] = "done"]
  /\ eCancelReq' = IF ePc["reader"] = "on" THEN eCancelReq \cup {"reader"} ELSE eCancelReq
  /\ eTaskReg' = FALSE
  /\ UNCHANGED <<sessionVars, mgrVars, trustVars, lanVars, frameVars, eState, eBytes, eFrame,
                 eStopped, eLog, eEntered, eRaised, eLast>>

\* Task.cancel() delivered to the send task where it is suspended.  A task
\* that never ran ends without running; CancelledError passes the except
\* clause of _emit; in the try body the handler of lines 364-366 sets
\* CANCELLED; in a handler or in the finally block it leaves send_file, the
\* finally block having cancelled the control-reader.
task_cancelled ==
  /\ "task" \in eCancelReq /\ ePc["task"] /= "done"
  /\ CASE ePc["task"] = "init" ->
            /\ ePc' = [ePc EXCEPT !["task"] = "done"]
            /\ eCancelReq' = eCancelReq \ {"task"}
            /\ UNCHANGED <<eState, eFrame, eLog, eEntered>>
       [] ePc["task"] /= "init" /\ InTry ->
            /\ OnStateChange("task", CANCELLED)
            /\ ePc' = [ePc EXCEPT !["task"] = "exc"]
            /\ eCancelReq' = eCancelReq \ {"task"}
       [] OTHER ->
            /\ eFrame' = [eFrame EXCEPT !["task"] = NoEmit]
            /\ ePc' = [ePc EXCEPT !["task"] = "done"]
            /\ eCancelReq' = IF ePc["reader"] = "on"
                               THEN (eCancelReq \ {"task"}) \cup {"reader"}
                               ELSE eCancelReq \ {"task"}
            /\ UNCHANGED <<eState, eLog, eEntered>>
  /\ UNCHANGED <<sessionVars, mgrVars, trustVars, lanVars, frameVars, eBytes, eTaskReg, eStopped,
                 eRaised, eLast>>

\* The commands of the peer and the end of the connection.
PeerCommands == {PAUSE, RESUME, CANCEL, "EOF"}

\* _monitor_remote_commands lines 136-162: recv_message returns a command of
\* the peer: its state is assigned and the state callback awaited; at the
\* end of the connection the reader ends.
reader_recv(cmd) ==
  /\ ePc["reader"] = "on" /\ ~Emitting("reader") /\ "reader" \notin eCancelReq
  /\ MonitorRemoteRuns(eState)
  /\ IF cmd = "EOF"
       THEN /\ ePc' = [ePc EXCEPT !["reader"] = "done"]
            /\ UNCHANGED <<eState, eFrame, eLog, eEntered>>
       ELSE /\ OnStateChange("reader", RemoteCommandState(cmd, eState))
            /\ ePc' = [ePc EXCEPT !["reader"] = IF cmd = CANCEL THEN "ret" ELSE "on"]
  /\ UNCHANGED <<sessionVars, mgrVars, trustVars, lanVars, frameVars, eBytes, eCancelReq, eTaskReg,
                 eStopped, eRaised, eLast>>

\* _monitor_remote_commands lines 136-140 and 163: the loop condition fails,
\* or the return after CANCEL.
reader_exit ==
  /\ ~Emitting("reader") /\ "reader" \notin eCancelReq
  /\ ePc["reader"] = "ret" \/ (ePc["reader"] = "on" /\ ~MonitorRemoteRuns(eState))
  /\ ePc' = [ePc EXCEPT !["reader"] = "done"]
  /\ UNCHANGED <<sessionVars, mgrVars, trustVars, lanVars, frameVars, eState, eBytes, eFrame,
                 eCancelReq, eTaskReg, eStopped, eLog, eEntered, eRaised, eLast>>

\* monitor_task.cancel() delivered to the control-reader: CancelledError
\* leaves the callback it is suspended in, lines 164-165 swallow it.
reader_cancelled ==
  /\ "reader" \in eCancelReq
  /\ eCancelReq' = eCancelReq \ {"reader"}
  /\ ePc' = [ePc EXCEPT !["reader"] = "done"]
  /\ eFrame' = [eFrame EXCEPT !["reader"] = NoEmit]
  /\ UNCHANGED <<sessionVars, mgrVars, trustVars, lanVars, frameVars, eState, eBytes, eTaskReg,
                 eStopped, eLog, eEntered, eRaised, eLast>>

\* self._transfers.get(transfer_id) finds a TransferInfo.
Known(tid) == tid = KnownTid

\* A pause_transfer that pauses whatever is not paused by the user.
PauseAppliesAlways(st) == st /= PAUSED

\* pause_transfer line 209.
PauseApplies(st) == st = TRANSFERRING

\* A resume_transfer that ends the peer's pause too.
ResumeAppliesToPeerPause(st) == st \in {PAUSED, PAUSED_BY_PEER}

\* resume_transfer line 216.
ResumeApplies(st) == st = PAUSED

\* What the manager call in progress was called with, and the state it found.
Called(name, tid) == eLast' = <<name, tid, IF Known(tid) THEN eState ELSE NoTransfer>>

\* pause_transfer lines 206-211.
pause_transfer(tid) ==
  /\ ePc["api"] = "idle" /\ ~eStopped
  /\ Called("pause_transfer", tid)
  /\ ePc' = [ePc EXCEPT !["api"] = "call"]
  /\ IF Known(tid) /\ PauseApplies(eState)
       THEN OnStateChange("api", PAUSED)
       ELSE UNCHANGED <<eState, eFrame, eLog, eEntered>>
  /\ UNCHANGED <<sessionVars, mgrVars, trustVars, lanVars, frameVars, eBytes, eCancelReq, eTaskReg,
                 eStopped, eRaised>>

\* resume_transfer lines 213-218.
resume_transfer(tid) ==
  /\ ePc["api"] = "idle" /\ ~eStopped
  /\ Called("resume_transfer", tid)
  /\ ePc' = [ePc EXCEPT !["api"] = "call"]
  /\ IF Known(tid) /\ ResumeApplies(eState)
       THEN OnStateChange("api", TRANSFERRING)
       ELSE UNCHANGED <<eState, eFrame, eLog, eEntered>>
  /\ UNCHANGED <<sessionVars, mgrVars, trustVars, lanVars, frameVars, eBytes, eCancelReq, eTaskReg,
                 eStopped, eRaised>>

\* cancel_transfer lines 220-231 with an effect: CANCELLED and the state
\* callback.
cancel_transfer(tid) ==
  /\ ePc["api"] = "idle" /\ ~eStopped
  /\ Known(tid) /\ eState \in Cancellable
  /\ OnStateChange("api", CANCELLED)
  /\ ePc' = [ePc EXCEPT !["api"] = "cancel"]
  /\ UNCHANGED <<sessionVars, mgrVars, trustVars, lanVars, frameVars, eBytes, eCancelReq, eTaskReg,
                 eStopped, eRaised, eLast>>

\* The manager call returns once _on_state_change has; cancel_transfer first
\* runs lines 233-236: _tasks.pop(transfer_id) and Task.cancel().
api_return ==
  /\ ePc["api"] /= "idle" /\ ~Emitting("api")
  /\ ePc' = [ePc EXCEPT !["api"] = "idle"]
  /\ eLast' = <<"none", 0, NoTransfer>>
  /\ IF ePc["api"] = "cancel"
       THEN /\ eTaskReg' = FALSE
            /\ eCancelReq' = IF eTaskReg /\ ePc["task"] /= "done"
                               THEN eCancelReq \cup {"task"} ELSE eCancelReq
       ELSE UNCHANGED <<eTaskReg, eCancelReq>>
  /\ UNCHANGED <<sessionVars, mgrVars, trustVars, lanVars, frameVars, eState, eBytes, eFrame,
                 eStopped, eLog, eEntered, eRaised>>

\* stop lines 91-102: Task.cancel() on the tasks of _tasks, _tasks.clear().
event_stop ==
  /\ ~eStopped
  /\ eStopped' = TRUE
  /\ eTaskReg' = FALSE
  /\ eCancelReq' = IF eTaskReg /\ ePc["task"] /= "done"
                     THEN eCancelReq \cup {"task"} ELSE eCancelReq
  /\ UNCHANGED <<sessionVars, mgrVars, trustVars, lanVars, frameVars, eState, eBytes, ePc, eFrame,
                 eLog, eEntered, eRaised, eLast>>

EventTask ==
  \/ task_start
  \/ \E answer \in {REJECT, ACCEPT, "error"} : task_answer(answer)
  \/ \E progress, error \in BOOLEAN : task_loop(progress, error)
  \/ task_finally
  \/ task_cancelled

EventReader ==
  \/ \E cmd \in PeerCommands : reader_recv(cmd)
  \/ reader_exit
  \/ reader_cancelled

EventCalls ==
  \/ \E tid \in {KnownTid, UnknownTid} : pause_transfer(tid)
  \/ \E tid \in {KnownTid, UnknownTid} : resume_transfer(tid)
  \/ \E tid \in {KnownTid, UnknownTid} : cancel_transfer(tid)
  \/ api_return
  \/ event_stop

EventCallbacks ==
  \E c \in Callers, outcome \in Outcomes : callback_ends(c, outcome)

EventNext ==
  \/ EventTask
  \/ EventReader
  \/ EventCalls
  \/ EventCallbacks

EventSpec == MgrInit /\ [][EventNext]_vars

\* ================================================ one frame on the wire
\* recv_message of service.py reading one frame from a peer that may declare
\* any length in the header and may close the connection before the payload
\* is complete.  Lengths are in bytes, scaled as CHUNK_SIZE is.

\* The ceiling the protocol asks readers to enforce, 16 MiB, is 128 chunks;
\* scaled to 2 chunks.
FrameCeiling == 2 * CHUNK_SIZE

\* The largest length a header declares here.
MaxFrameLen == FrameCeiling + 2

\* The type byte of the header.
FrameTypes == {METADATA, DATA_CHUNK, CANCEL}

\* A header is on the stream: its type, the length it declares, and how much
\* of the payload the peer will send.
FrameInit ==
  /\ wType \in FrameTypes
  /\ wLen \in 0..MaxFrameLen
  /\ wAvail \in 0..wLen
  /\ wPc = "header" /\ wBuf = 0

\* recv_message lines 54-57: readexactly(HEADER_SIZE), unpack; a length of 0
\* returns the type with an empty payload, any other length is read.
recv_header ==
  /\ wPc = "header"
  /\ wPc' = IF wLen > 0 THEN "payload" ELSE "returned"
  /\ UNCHANGED <<sessionVars, mgrVars, trustVars, lanVars, emitVars, wType, wLen, wAvail, wBuf>>

\* recv_message line 58, readexactly(length): bytes that arrive are buffered
\* until there are length of them.
recv_data ==
  /\ wPc = "payload" /\ wBuf < wLen /\ wBuf < wAvail
  /\ wBuf' = wBuf + 1
  /\ UNCHANGED <<sessionVars, mgrVars, trustVars, lanVars, emitVars, wType, wLen, wAvail, wPc>>

\* recv_message lines 58-59: readexactly has its bytes; the type and the
\* payload are returned.
recv_return ==
  /\ wPc = "payload" /\ wBuf = wLen
  /\ wPc' = "returned"
  /\ UNCHANGED <<sessionVars, mgrVars, trustVars, lanVars, emitVars, wType, wLen, wAvail, wBuf>>

\* recv_message line 58: the stream ends before length bytes have come:
\* IncompleteReadError.
recv_eof ==
  /\ wPc = "payload" /\ wBuf = wAvail /\ wAvail < wLen
  /\ wPc' = "raised"
  /\ UNCHANGED <<sessionVars, mgrVars, trustVars, lanVars, emitVars, wType, wLen, wAvail, wBuf>>

FrameNext ==
  \/ recv_header
  \/ recv_data
  \/ recv_return
  \/ recv_eof

\* Everything else stays in one initial state.
FrameSpecInit ==
  /\ SessionInit /\ fileSize = 0 /\ ~rFileExists
  /\ ManagerInit /\ TrustInit /\ LanInit /\ EmitInit
  /\ FrameInit

FrameSpec == FrameSpecInit /\ [][FrameNext]_vars

\* ================================================================ claims
\* The session tasks and their monitors can take no step.
TasksQuiet == ~ENABLED (SenderTask \/ SenderMonitor \/ ReceiverTask \/ ReceiverMonitor)

\* A DATA_CHUNK or TRANSFER_COMPLETE was written by the sender or is in flight.
DataOnWire ==
  hist.sData \/ \E i \in DOMAIN chanSR : chanSR[i].type \in {DATA_CHUNK, TRANSFER_COMPLETE}

\* save_dir/file_name is as it was before the connection.
FileUntouched == ~hist.rOpened /\ ~hist.rFileChanged

\* C1: once a transfer is COMPLETED, FAILED, CANCELLED or REJECTED, its state
\* never changes again, on the sender and on the receiver.
C1_TerminalStateIsFinal ==
  [][/\ sState \in Terminal => sState' = sState
     /\ rState \in Terminal => rState' = rState]_vars

\* C2: the sender writes DATA_CHUNK / TRANSFER_COMPLETE only after send_file
\* read ACCEPT and then RESUME_OFFSET; the receiver writes ACCEPT only after
\* the user's accepting response made accept_callback return true; the
\* receiver opens or changes save_dir/file_name only after that acceptance.
C2_NothingBeforeAcceptance ==
  /\ DataOnWire =>
       \E i, j \in DOMAIN hist.sRead :
         i < j /\ hist.sRead[i] = ACCEPT /\ hist.sRead[j] = RESUME_OFFSET
  /\ ACCEPT \in hist.rWrote => accepted = "true" /\ hist.first = "accept"
  /\ ~FileUntouched => accepted = "true" /\ hist.first = "accept"

\* C2 witness: an accepted transfer ran to the end; data was written and the
\* file opened.
C2_Witness ==
  /\ hist.sData /\ hist.rOpened
  /\ sState = COMPLETED /\ rState = COMPLETED
  /\ fileSize > 0 /\ rFile = SrcFile

\* C3: when accept_callback returns false the receiver writes REJECT and ends
\* REJECTED, the sender having read REJECT is REJECTED and is never FAILED, no
\* DATA_CHUNK is sent on the connection and save_dir/file_name is neither
\* created nor modified.
C3_RejectEndsRejected ==
  accepted = "false" =>
    /\ REJECT \in hist.rWrote /\ ACCEPT \notin hist.rWrote
    /\ rState = REJECTED
    /\ sState /= FAILED
    /\ (\E i \in DOMAIN hist.sRead : hist.sRead[i] = REJECT) => sState = REJECTED
    /\ sPc = "done" => sState = REJECTED
    /\ ~DataOnWire
    /\ FileUntouched

\* C3 witness: the user rejected, both sessions have ended.
C3_Witness ==
  /\ hist.first = "reject" /\ accepted = "false"
  /\ sPc = "done" /\ rPc = "done"
  /\ sState = REJECTED /\ rState = REJECTED

\* C4: a prompt that times out resolves to false and the transfer is rejected
\* as for an explicit reject (REJECT written, REJECTED on both sides, no data,
\* no file); whatever resolved the prompt first (a response or the timeout)
\* decides, so a late or a second respond_to_request has no effect.
C4_TimeoutRejects ==
  /\ slot = "true" => hist.first = "accept"
  /\ slot = "false" => hist.first = "reject"
  /\ slot = "timeout" => hist.first = "timeout"
  /\ accepted = "true" => hist.first = "accept"
  /\ accepted = "false" => hist.first \in {"reject", "timeout"}
  /\ hist.first = "timeout" =>
       /\ accepted /= "true"
       /\ ACCEPT \notin hist.rWrote
       /\ ~DataOnWire /\ FileUntouched
       /\ sState \in {CONNECTING, REJECTED}
       /\ rState \in {AWAITING_ACCEPTANCE, CANCELLED, REJECTED}
       /\ accepted = "false" => REJECT \in hist.rWrote /\ rState = REJECTED
       /\ sPc = "done" => sState = REJECTED

\* C4 witness: the prompt timed out and both sides ended REJECTED.
C4_Witness ==
  /\ hist.first = "timeout" /\ accepted = "false"
  /\ sPc = "done" /\ rPc = "done"
  /\ sState = REJECTED /\ rState = REJECTED

\* C5: 0 <= transferred_bytes <= file_size on both sides, at all times.
C5_TransferredWithinFileSize ==
  /\ sTransferred \in 0..fileSize
  /\ rTransferred \in 0..fileSize

\* C6: within one manager at most one session is active per transfer_id, also
\* when several incoming connections present the same transfer_id or one
\* that is already in the transfer table.
C6_OneActiveSessionPerTransferId ==
  \A tid \in Tids :
    Cardinality({s \in Sessions : mSess[s].tid = tid /\ Active(s)}) <= 1

\* C7: after the receiver's user cancelled in TRANSFERRING, PAUSED or
\* PAUSED_BY_PEER, the receiver does not close the connection without having
\* written CANCEL, and neither side is FAILED.
C7_ReceiverCancelIsPropagated ==
  hist.rUserCancel =>
    /\ rClosed => CANCEL \in hist.rWrote
    /\ sState /= FAILED
    /\ rState /= FAILED

\* C8: in every non-terminal state of a known transfer a cancel_transfer call
\* acts: it sets CANCELLED (and cancels the send task that is still running).
C8_CancelActsInEveryNonTerminalState ==
  /\ sState \notin Terminal =>
       ENABLED (sender_cancel_transfer /\ sState' = CANCELLED)
  /\ rState \notin Terminal \cup {NoTransfer} =>
       ENABLED (receiver_cancel_transfer /\ rState' = CANCELLED)

\* C9: a pause of the sender's user is propagated: when the sender is PAUSED
\* by its user and nothing is left to run, a receiver that has not ended is
\* PAUSED_BY_PEER.
C9_SenderPauseIsPropagated ==
  (/\ hist.sWantsPause /\ sState = PAUSED
   /\ rPc = "loop" /\ rState \notin Terminal
   /\ TasksQuiet)
    => rState = PAUSED_BY_PEER

\* Both sides are paused by their peer.
DoublyPaused == sState = PAUSED_BY_PEER /\ rState = PAUSED_BY_PEER

\* C10: a doubly paused transfer is resumable: when both sides are
\* PAUSED_BY_PEER and nothing is left to run, a resume_transfer call of at
\* least one of the two users takes its side out of PAUSED_BY_PEER.
C10_DoublePauseIsResumable ==
  (DoublyPaused /\ TasksQuiet) =>
    \/ ENABLED (sender_resume_transfer /\ sState' /= sState)
    \/ ENABLED (receiver_resume_transfer /\ rState' /= rState)

\* C11: once every task of the session has run as far as it can, a side whose
\* peer closed or lost the connection without having sent CANCEL or
\* TRANSFER_COMPLETE is not left in TRANSFERRING, PAUSED or PAUSED_BY_PEER:
\* the sender after the receiver's end went away, and the receiver after
\* the sender's end went away.
InDataPhase(st) == st \in {TRANSFERRING, PAUSED, PAUSED_BY_PEER}

C11_PeerCloseFailsTheTransfer ==
  TasksQuiet =>
    /\ (rClosed /\ CANCEL \notin hist.rWrote) => ~InDataPhase(sState)
    /\ sClosed => ~InDataPhase(rState)

\* C11, the sender after a broken connection: once nothing can run any more
\* the sender's transfer is not left in TRANSFERRING, PAUSED or PAUSED_BY_PEER.
C11_DropFailsTheSender ==
  (TasksQuiet /\ hist.fault = "drop") => ~InDataPhase(sState)

\* C12: after stop() every session that is still running has had its task
\* cancelled, sending or receiving, and a session whose task has ended has
\* left its transfer in a terminal state.
C12_StopEndsEverySession ==
  hist.stopped =>
    \A s \in Sessions :
      /\ Active(s) => mSess[s].cancelReq
      /\ mSess[s].pc = "done" => mSess[s].state \in Terminal

\* C13: whenever the receiver's transfer is COMPLETED and save_dir/file_name
\* was absent, empty or a prefix of the sender's file before the transfer,
\* the file now holds exactly the bytes of the sender's file, whatever
\* pauses and resumes happened on the way.
C13_CompletedFileEqualsSource ==
  (rState = COMPLETED /\ hist.prefix0) => (rFileExists /\ rFile = SrcFile)

\* C13 happens: a resumption from a proper, non-empty prefix, paused on the
\* way, has completed on the receiver.
C13_Witness ==
  /\ rState = COMPLETED /\ hist.prefix0
  /\ hist.sOffset > 0 /\ hist.sOffset < fileSize
  /\ pauses > 0
  /\ rFile = SrcFile

\* The bytes of a sequence of chunks, in order.
RECURSIVE Flatten(_)
Flatten(chunks) == IF chunks = <<>> THEN <<>> ELSE Head(chunks) \o Flatten(Tail(chunks))

CeilDiv(a, b) == (a + b - 1) \div b

\* Nobody paused or cancelled and the request was accepted.
Uninterrupted ==
  /\ pauses = 0 /\ ~hist.rUserCancel
  /\ sState /= CANCELLED /\ rState /= CANCELLED

\* C14: with S the file size and k <= S the resume offset the sender read,
\* the DATA_CHUNKs written so far are the bytes k+1.. of the file in order,
\* none empty or longer than CHUNK_SIZE and all but the last of CHUNK_SIZE
\* bytes; once TRANSFER_COMPLETE is written (at most once) they are exactly
\* ceil((S-k)/CHUNK_SIZE) chunks covering the file to its end, so none at
\* all for S = 0 or k = S; and an uninterrupted session that has run to its
\* end leaves both sides COMPLETED.
C14_ChunkSequence ==
  LET k == hist.sOffset
      S == fileSize
      n == Len(hist.sChunks)
  IN  /\ k < 0 => n = 0 /\ hist.sComplete = 0
      /\ (k >= 0 /\ k <= S) =>
            /\ hist.sComplete <= 1
            /\ \A i \in 1..n : Len(hist.sChunks[i]) \in 1..CHUNK_SIZE
            /\ \A i \in 1..(n - 1) : Len(hist.sChunks[i]) = CHUNK_SIZE
            /\ Flatten(hist.sChunks) = SubSeq(SrcFile, k + 1, sTransferred)
            /\ hist.sComplete = 1 =>
                  /\ n = CeilDiv(S - k, CHUNK_SIZE)
                  /\ sTransferred = S
            /\ (S = 0 \/ k = S) => n = 0
            /\ (Uninterrupted /\ TasksQuiet) =>
                  /\ hist.sComplete = 1
                  /\ sState = COMPLETED /\ rState = COMPLETED

\* C14 happens: a send of two chunks, the last one short, has completed.
C14_Witness ==
  /\ hist.sOffset >= 0 /\ hist.sComplete = 1
  /\ Len(hist.sChunks) = 2 /\ Len(hist.sChunks[2]) < CHUNK_SIZE
  /\ sState = COMPLETED /\ rState = COMPLETED

\* receive_file reads a DATA_CHUNK that was altered in transit.
ReadsAlteredChunk ==
  /\ receive_file_recv
  /\ CanRead(chanSR) /\ Head(chanSR).type = DATA_CHUNK /\ ~Head(chanSR).data.tag

\* C15 as stated: once the receiver has read a DATA_CHUNK that fails
\* authentication its transfer is FAILED.
C15_AlteredChunkFails ==
  hist.rReadAltered => rState = FAILED

\* C15: the step that reads a DATA_CHUNK failing authentication writes nothing
\* to the file, does not advance transferred_bytes, leaves the receive loop
\* and sets FAILED (error_message is assigned with it), unless the transfer
\* was already CANCELLED, which it then stays; from then on the file and
\* transferred_bytes never change, the state stays FAILED (or CANCELLED), so
\* never COMPLETED, and the session ends with the connection closed.
C15_AlteredChunkFailsUnlessCancelled ==
  /\ [][ReadsAlteredChunk =>
          /\ rFile' = rFile /\ rTransferred' = rTransferred
          /\ rState' = (IF rState = CANCELLED THEN CANCELLED ELSE FAILED)
          /\ rPc' = "fin"]_vars
  /\ [][hist.rReadAltered =>
          /\ rFile' = rFile /\ rTransferred' = rTransferred
          /\ rState' = rState]_vars
  /\ [](hist.rReadAltered =>
          /\ rState \in {FAILED, CANCELLED}
          /\ rPc \in {"fin", "done"}
          /\ rPc = "done" => rClosed)

\* C15 happens: after a first chunk was written, the second was altered and
\* read; the receiver is FAILED, closed, with just the first chunk in the file.
C15_Witness ==
  /\ hist.rReadAltered /\ rState = FAILED /\ rPc = "done" /\ rClosed
  /\ rTransferred = CHUNK_SIZE /\ Len(rFile) = CHUNK_SIZE
  /\ Len(hist.sChunks) = 2

\* The records of a trust store.
Records(store) == {store[i] : i \in DOMAIN store}

\* The state of the transfer on its sending / receiving side.
SenderState(x) == IF x.phase = "idle" THEN NoTransfer ELSE x.sState
ReceiverState(x) == IF x.phase = "idle" THEN NoTransfer ELSE x.rState

C17_FileHoldsTheStore ==
  \A d \in Devices : tFile[d] = SavedFile(tPeers[d])

\* Device d's trust store holds o's long-term key with o's real name.
HoldsRealIdentity(d, o) ==
  \E p \in Records(tPeers[d]) :
    p.public_key_hex = PublicKey(o) /\ p.real_name = DEVICE_NAME(o)

\* Device d resolves o's next beacon to a trusted peer named as o's host.
ResolvesToRealName(d, o) ==
  LET p == ResolvedPeer(tPeers[d], BroadcastBeacon(o)) IN
  p.is_trusted /\ p.device_name = DEVICE_NAME(o)

\* C18: when a transfer has completed on both sides with both identities
\* verified, each device's trust store holds the other's long-term key with
\* the other's real device name, and each resolves the other's next beacon
\* to a trusted peer with that name.
C18_BothSidesHoldRealNames ==
  (/\ xfer.phase = "ended" /\ xfer.sState = COMPLETED /\ xfer.rState = COMPLETED
   /\ xfer.sVerified /\ xfer.rVerified)
  => \A d \in Devices :
       HoldsRealIdentity(d, Other(d)) /\ ResolvesToRealName(d, Other(d))

\* The auth_tag of b is a signature over b's canonical bytes under a key of
\* the store.
TagVerifies(store, b) ==
  /\ b.auth_tag.kind = "sig"
  /\ \E p \in Records(store) :
       IsSignatureOf(b.auth_tag, p.public_key_hex, get_signable_bytes(b))

\* C19 as stated: a received beacon that is not ignored and whose auth_tag
\* does not verify is entered untrusted under its public_id and alias.
C19_UnverifiedUnderPublicIdAndAlias ==
  [][\A d \in Devices : \A b \in AnyBeacons(d) :
       (datagram_received(d, b) /\ ~Ignored(d, b) /\ ~TagVerifies(tPeers[d], b)) =>
         \E e \in peers'[d] :
           e.device_id = b.public_id /\ e.device_name = b.alias /\ ~e.is_trusted]_vars

\* C19: a beacon from this device itself or from another application changes
\* nothing.  Any other beacon yields exactly one entry, replacing the one
\* with the same device_id: trusted iff its auth_tag is a signature over
\* (app_id, public_id, alias, api_port, transfer_port) under a key that is
\* in the trust store at that moment, then under the device_id and real_name
\* of a record with such a key; else under the beacon's public_id, or its
\* device_id if public_id is empty, and its alias, or its device_name if
\* alias is empty.
C19_TrustedOnlyIfTagVerifies ==
  [][\A d \in Devices : \A b \in AnyBeacons(d) :
       datagram_received(d, b) =>
         IF b.device_id = DEVICE_ID(d) \/ b.public_id = PublicId(d) \/ b.app_id /= APP_ID
           THEN peers'[d] = peers[d]
           ELSE \E e \in peers'[d] :
                  /\ peers'[d] \ {e} = {q \in peers[d] : q.device_id /= e.device_id}
                  /\ e.is_trusted = TagVerifies(tPeers[d], b)
                  /\ e.is_trusted =>
                       \E p \in Records(tPeers[d]) :
                         /\ IsSignatureOf(b.auth_tag, p.public_key_hex, get_signable_bytes(b))
                         /\ e.device_id = p.device_id /\ e.device_name = p.real_name
                  /\ ~e.is_trusted =>
                       /\ e.device_id = (IF b.public_id /= Empty THEN b.public_id
                                                                 ELSE b.device_id)
                       /\ e.device_name = (IF b.alias /= Empty THEN b.alias
                                                                ELSE b.device_name)]_vars

\* C19 happens: the peer table of a device holds a trusted entry and an
\* untrusted one.
C19_Witness ==
  \E d \in Devices :
    \E e, f \in peers[d] : e.is_trusted /\ ~f.is_trusted

\* C20: no trust store holds two records with the same public key.
C20_OneRecordPerKey ==
  \A d \in Devices :
    \A i, j \in DOMAIN tPeers[d] :
      i /= j => tPeers[d][i].public_key_hex /= tPeers[d][j].public_key_hex

\* C21: every peer in the peer table was seen at most PEER_TIMEOUT ago.
C21_PeersWithinTimeout ==
  \A id \in DOMAIN seen : seen[id] <= PEER_TIMEOUT

\* The device_ids the other device may broadcast under.
RemoteIds == {PublicIdOfRun("B", n) : n \in 1..(1 + MaxRestarts)}

\* The other device is broadcasting under id and a beacon of this
\* broadcasting has arrived.
BeaconsArrive(id) == rAlive /\ rHeard /\ id = RemoteId

\* C22: a peer of the table whose beacons have stopped arriving leaves the
\* table (unless its beacons arrive again or the service is stopped); a
\* step that removes peers emits peer_lost once for each of them and
\* nothing else; a peer whose beacons arrive every DISCOVERY_INTERVAL is
\* in the table, seen at most DISCOVERY_INTERVAL ago, and no step
\* removes it.
C22_SilentPeerLostHeardPeerKept ==
  /\ \A id \in RemoteIds :
       (id \in DOMAIN seen /\ ~(rAlive /\ id = RemoteId))
         ~> (id \notin DOMAIN seen \/ (rAlive /\ id = RemoteId) \/ lPc = "stopped")
  /\ [][DOMAIN seen \ DOMAIN seen' /= {} =>
           emitted' = {<<"peer_lost", id>> : id \in DOMAIN seen \ DOMAIN seen'}]_vars
  /\ [][\A id \in DOMAIN seen \ DOMAIN seen' : ~BeaconsArrive(id)]_vars
  /\ [](\A id \in RemoteIds :
         BeaconsArrive(id) => id \in DOMAIN seen /\ seen[id] <= DISCOVERY_INTERVAL)

\* C22 happens: one peer has been removed with peer_lost in this step while
\* another, whose beacons arrive, is in the table.
C22_Witness ==
  \E id \in RemoteIds :
    /\ emitted = {<<"peer_lost", id>>}
    /\ id \notin DOMAIN seen
    /\ BeaconsArrive(RemoteId) /\ RemoteId \in DOMAIN seen

\* C23: a step emits peer_discovered for exactly the device_ids it puts
\* into the peer table and peer_lost for exactly those it takes out, so a
\* beacon of a peer that is in the table emits nothing; peer_discovered for
\* a device_id follows no event or peer_lost, peer_lost follows
\* peer_discovered.
C23_PeerEventsAlternate ==
  [][/\ emitted' = {<<"peer_discovered", id>> : id \in DOMAIN seen' \ DOMAIN seen}
                     \cup {<<"peer_lost", id>> : id \in DOMAIN seen \ DOMAIN seen'}
     /\ \A e \in emitted' :
          /\ e[1] = "peer_discovered" =>
               (e[2] \notin DOMAIN lastEv \/ lastEv[e[2]] = "peer_lost")
          /\ e[1] = "peer_lost" =>
               (e[2] \in DOMAIN lastEv /\ lastEv[e[2]] = "peer_discovered")
          /\ lastEv'[e[2]] = e[1]]_vars

\* C23 happens: a beacon has just put a peer into the table, with
\* peer_discovered, after peer_lost was emitted for another.
C23_Witness ==
  /\ emitted = {<<"peer_discovered", RemoteId>>}
  /\ \E id \in DOMAIN lastEv : lastEv[id] = "peer_lost"

\* C24: no beacon was sent with a transfer_port other than the port the
\* manager's listener is bound to; none with 0.
C24_BeaconsCarryTheBoundPort ==
  \A port \in sentPorts : port = mPort /\ port /= 0

\* The state changes the transfer state machine allows.
AllowedTransition(a, b) ==
  \/ a = PENDING /\ b = CONNECTING
  \/ a = CONNECTING /\ b \in {TRANSFERRING, FAILED, CANCELLED}
  \/ a = AWAITING_ACCEPTANCE /\ b \in {TRANSFERRING, REJECTED, CANCELLED, FAILED}
  \/ a \in {TRANSFERRING, PAUSED, PAUSED_BY_PEER} /\ b \in {TRANSFERRING, PAUSED, PAUSED_BY_PEER}
  \/ a \notin Terminal /\ b \in {CANCELLED, FAILED, COMPLETED}

\* A step changes the state of an existing transfer from a to b.
StateChange(a, b) == a /= NoTransfer /\ a /= b

\* C26: every change of a transfer's state, on the sending and on the
\* receiving side, is one of the allowed transitions.
C26_OnlyAllowedTransitions ==
  [][/\ StateChange(sState, sState') => AllowedTransition(sState, sState')
     /\ StateChange(rState, rState') => AllowedTransition(rState, rState')]_vars

\* The send task and its control-reader have ended, no manager call is in
\* progress and no caller is inside _emit.
EventsQuiet ==
  /\ ePc["task"] = "done" /\ ePc["reader"] \in {"off", "done"} /\ ePc["api"] = "idle"
  /\ \A c \in Callers : ~Emitting(c)
  /\ eCancelReq = {}

\* C27: every transition of the transfer into COMPLETED, FAILED, CANCELLED or
\* REJECTED, by the send task, its control-reader or a manager call, is
\* followed by a transfer_state event carrying that state and by a
\* notification event for it: once everything has run, both were emitted.
C27_TerminalTransitionsAnnounced ==
  EventsQuiet =>
    \A s \in eEntered : <<"transfer_state", s>> \in eLog /\ <<"notification", s>> \in eLog

\* The callbacks in q are the first Len(q) in registration order.
InRegistrationOrder(q) == Len(q) <= NCallbacks /\ q = [i \in 1..Len(q) |-> i]

\* C28: when a registered callback raises during the emission of an event,
\* the callbacks are still invoked in registration order: the next one is
\* invoked for the same event, or, after the last, _emit returns as usual;
\* and the exception does not reach the caller: the transfer's state, its
\* transferred bytes and the position of every task are left as they were.
C28_CallbackFailureIsContained ==
  /\ [](\A c \in Callers : InRegistrationOrder(eFrame[c].invoked))
  /\ [][\A c \in Callers :
          callback_ends(c, "Exception") =>
            /\ eState' = eState /\ eBytes' = eBytes /\ ePc' = ePc
            /\ eCancelReq' = eCancelReq
            /\ IF Len(eFrame[c].invoked) < NCallbacks
                 THEN eFrame'[c] = [eFrame[c] EXCEPT !.invoked = Append(@, Len(@) + 1)]
                 ELSE \/ eFrame'[c] = NoEmit
                      \/ /\ eFrame[c].ev = "transfer_state"
                         /\ eFrame'[c] = Emit("notification", eState)]_vars

\* A callback has raised, and the transfer went on to send the whole file
\* and to complete.
C28_Witness ==
  /\ eRaised
  /\ eState = COMPLETED /\ eBytes = MaxChunks /\ ePc["task"] = "done"
  /\ <<"notification", COMPLETED>> \in eLog

\* A manager call leaves the transfer as it is and emits nothing.
NoEffect == eState' = eState /\ eBytes' = eBytes /\ eLog' = eLog /\ eFrame' = eFrame

\* C30: pause_transfer changes the transfer only when it is TRANSFERRING, to
\* PAUSED, and resume_transfer only when it is PAUSED, to TRANSFERRING; in
\* every other state, and for a transfer_id that is not in the table, the
\* transfer is left as it is and no event is emitted; a resume_transfer
\* leaves a transfer that is PAUSED_BY_PEER in that state.
C30_PauseAndResumeOnlyFromTheirState ==
  [][\A tid \in {KnownTid, UnknownTid} :
       /\ pause_transfer(tid) =>
            IF tid = KnownTid /\ eState = TRANSFERRING
              THEN eState' = PAUSED /\ eFrame'["api"] = Emit("transfer_state", PAUSED)
              ELSE NoEffect
       /\ resume_transfer(tid) =>
            IF tid = KnownTid /\ eState = PAUSED
              THEN eState' = TRANSFERRING /\ eFrame'["api"] = Emit("transfer_state", TRANSFERRING)
              ELSE NoEffect
       /\ (resume_transfer(tid) /\ eState = PAUSED_BY_PEER) => eState' = PAUSED_BY_PEER]_vars

\* resume_transfer was called for the transfer while the peer had paused it,
\* and the transfer is still paused by the peer.
C30_Witness ==
  /\ eLast = <<"resume_transfer", KnownTid, PAUSED_BY_PEER>>
  /\ eState = PAUSED_BY_PEER

\* The session s fails, is rejected or is cancelled in this step.
SessionStops(s) ==
  /\ mSess'[s].state \in {FAILED, REJECTED, CANCELLED}
  /\ mSess'[s].state /= mSess[s].state

\* The session r keeps its state, its acceptance future and its place in
\* _accept_futures, and its task: the place in _tasks and no Task.cancel().
Untouched(r) ==
  /\ mSess'[r] = mSess[r]
  /\ (mFutures[mSess[r].tid] = r) => (mFutures'[mSess[r].tid] = r)
  /\ (mTasks[mSess[r].tid] = r) => (mTasks'[mSess[r].tid] = r)

\* C29: a step in which one session fails, is rejected or is cancelled leaves
\* every other session of the manager as it is (state, acceptance slot,
\* task) and leaves the listener running.
C29_SessionsAreIsolated ==
  [][\A s \in Sessions :
       SessionStops(s) =>
         /\ \A r \in Sessions \ {s} : Active(r) => Untouched(r)
         /\ hist'.stopped = hist.stopped]_vars

\* C25: recv_message refuses a frame whose header declares more than the
\* ceiling: it reads and buffers none of its payload and does not return it;
\* a frame of a length up to the ceiling is returned with the payload the
\* header declared.
C25_OversizedFramesRefused ==
  /\ wLen > FrameCeiling => (wBuf = 0 /\ wPc \notin {"payload", "returned"})
  /\ (wLen <= FrameCeiling /\ wPc = "returned") => wBuf = wLen

\* cancel_transfer has set CANCELLED on the incoming transfer while it was
\* AWAITING_ACCEPTANCE: receive_file is still in _prompt_accept.
CancelledInPrompt == rState = CANCELLED /\ rPc \in {"prompt_emit", "prompt"}

\* C31: after cancel_transfer on an incoming transfer in AWAITING_ACCEPTANCE
\* no step of the receiver (the answer of respond_to_request, the timeout of
\* the prompt) changes its state away from CANCELLED, writes ACCEPT or opens
\* the file.
C31_CancelledPromptStaysCancelled ==
  [][CancelledInPrompt =>
       /\ rState' = CANCELLED
       /\ ACCEPT \notin hist'.rWrote
       /\ ~hist'.rOpened]_vars

\* The send task leaves the pause wait for the next chunk: the step that
\* writes RESUME (send_file lines 321-322).
SenderWritesResume == sPc = "pausewait" /\ sPc' = "chunk"

\* C32: every RESUME the sender writes follows a PAUSE the sender wrote and
\* has not yet matched with a RESUME; none is written after a pause that the
\* peer initiated.
C32_SenderResumeFollowsItsPause ==
  [][SenderWritesResume => hist.sPauseOpen]_vars

\* C33: a transfer its local user has paused and not resumed does not return
\* to TRANSFERRING: no step other than the user's own resume_transfer, in
\* particular no RESUME read from the peer, moves a PAUSED transfer to
\* TRANSFERRING, on the receiver and on the sender.
C33_PeerResumeKeepsLocalPause ==
  [][/\ (rState = PAUSED /\ hist.rWantsPause /\ hist'.rWantsPause) => rState' /= TRANSFERRING
     /\ (sState = PAUSED /\ hist.sWantsPause /\ hist'.sWantsPause) => sState' /= TRANSFERRING]_vars

\* C34: once send_file or receive_file has ended, for whatever reason, its
\* end of the connection is closed and its control-reader or
\* local-state-monitor has ended: it takes no further step, so it neither
\* reads from nor writes to the connection.
C34_EndedSessionReleasesConnection ==
  /\ [](sPc = "done" => (sConn => sClosed) /\ sMon \in {"off", "done"})
  /\ [](rPc = "done" => rClosed /\ rMon \in {"off", "done"})
  /\ [][/\ sPc = "done" => ~(monitor_remote_start \/ monitor_remote_recv)
        /\ rPc = "done" => ~(monitor_local_start \/ monitor_local_poll)]_vars

\* Both sessions have ended after the connection broke in the data phase,
\* each with its monitor task spawned before.
C34_Witness ==
  /\ sPc = "done" /\ rPc = "done"
  /\ hist.fault = "drop"
  /\ sState = FAILED /\ rState = FAILED
  /\ sMon = "done" /\ rMon = "done"

\* C36: a respond_to_request made after the transfer_request event was
\* delivered, with no earlier answer and before the timeout, settles the
\* acceptance: the future holds the answer of the call.
RequestDelivered == rPc \in {"prompt_emit", "prompt"} /\ hist.first = "none"

C36_ResponseAfterRequestIsHeard ==
  [][\A accept \in BOOLEAN :
       (RequestDelivered /\ respond_to_request(accept))
         => slot' = (IF accept THEN "true" ELSE "false")]_vars

\* C39: when save_dir/file_name existed before the transfer with content that
\* is not a prefix of the sender's file, the receiver neither appends to it
\* nor reports COMPLETED for it.
AppendsToFile == Len(rFile') > Len(rFile) /\ IsPrefix(rFile, rFile')

C39_UnrelatedFileIsNotExtended ==
  /\ [](~hist.prefix0 => rState /= COMPLETED)
  /\ [][~hist.prefix0 => ~AppendsToFile]_vars

\* C37: when the sender's transfer is COMPLETED the receiver's transfer is
\* never FAILED or CANCELLED, and once the session tasks have come to rest it
\* is COMPLETED with the whole file written.
C37_EndsAgreeOnCompletion ==
  sState = COMPLETED =>
    /\ rState \notin {FAILED, CANCELLED}
    /\ TasksQuiet => /\ rState = COMPLETED
                     /\ hist.prefix0 => rFile = SrcFile

\* C38: a beacon whose auth_tag verifies under no key of the trust store
\* leaves every trusted entry of the peer table as it is.
C38_UnverifiedBeaconKeepsTrustedEntry ==
  [][\A d \in Devices : \A b \in AnyBeacons(d) :
       (datagram_received(d, b) /\ verify_peer(tPeers[d], b) = NoPeer)
         => \A p \in peers[d] : p.is_trusted => p \in peers'[d]]_vars

\* C40: a side whose transfer is CANCELLED does not come to rest before its
\* session task has ended and closed its end of the connection: when no
\* session task and no monitor can take a step and no timeout is due, the task of a CANCELLED
\* transfer is done and the connection closed, whatever the peer does.
AtRest == TasksQuiet /\ ~ENABLED prompt_accept_timeout

C40_CancelledSessionEnds ==
  AtRest =>
    /\ sState = CANCELLED => sPc = "done" /\ (sConn => sClosed)
    /\ rState = CANCELLED => rPc = "done" /\ rClosed

\* C35: each end of the connection has one reader and one writer at a time.
\* On the sender the control-reader never writes, and once it is spawned the
\* send_file task no longer reads; on the receiver the local-state-monitor
\* never reads, and once it is spawned the receive_file task no longer
\* writes.  Frames stay in the order they were written: a queue only loses
\* its head, gains frames at its end, or is discarded by a close.
InOrder(chan, next, discarded) ==
  \/ IsPrefix(chan, next)
  \/ chan /= <<>> /\ next = Tail(chan)
  \/ discarded /\ next = <<>>

C35_OneReaderOneWriter ==
  [][/\ SenderMonitor => chanSR' = chanSR
     /\ (sMon /= "off" /\ SenderTask) => (chanRS' = chanRS \/ (sClosed' /\ chanRS' = <<>>))
     /\ ReceiverMonitor => chanSR' = chanSR
     /\ (rMon /= "off" /\ ReceiverTask) => chanRS' = chanRS
     /\ InOrder(chanSR, chanSR', rClosed')
     /\ InOrder(chanRS, chanRS', sClosed')]_vars

\* Both monitors run, the sender has two frames in flight and the receiver's
\* monitor one.
C35_Witness ==
  /\ sMon = "on" /\ rMon = "on"
  /\ Len(chanSR) >= 2 /\ chanRS /= <<>>
  /\ sPc \in {"loop", "chunk", "pausewait"} /\ rPc = "loop"
====
